---- MODULE Spec2Model ----
(***************************************************************************)
(* Model of the StockBuddy orchestration core: one session of              *)
(* AgentOrchestrator.process_user_input (triage, planning, pause/resume)   *)
(* driving TaskExecutor.execute_plan over a plan of tasks, with the        *)
(* remote agents, the planner LLM and the TaskService cancel endpoint as   *)
(* the environment.                                                        *)
(*                                                                         *)
(* An event is a triple <<kind, task, n>>: task is 0 for session level     *)
(* events, n is the index of the remote message a message_chunk carries.   *)
(* `store` is the item store in insertion order (EventResponseService.emit)*)
(* and `stream` is what _generate_responses has yielded to the client.     *)
(***************************************************************************)
EXTENDS Naturals, Sequences, FiniteSets

\* ----------------------------------------------------------------- bounds
NumTasks == 3        \* most tasks in one plan (SpecExec)
SessionTasks == 2    \* most tasks in one plan of a whole session (Spec)
MaxMsgs == 1         \* most "working" messages in one remote invocation
MaxRuns == 2         \* most remote invocations of one RECURRING task
MaxRecurring == 1    \* tasks 1..MaxRecurring of a plan may be RECURRING (SpecExec)
DelayTicks == 2      \* scheduled delay, in poll intervals

TaskIds == 1..NumTasks

VARIABLES
    spc,        \* position of _generate_responses
    target,     \* user_input.target_agent_name
    conv,       \* conversation status: "absent", "ACTIVE", "REQUIRE_USER_INPUT"
    ctx,        \* _execution_contexts[conversation_id]: "none", "valid", "invalid"
    pending,    \* PlanService holds a pending UserInputRequest
    planner,    \* the planning asyncio.Task
    plan,       \* the ExecutionPlan the planner returned
    stream,     \* events yielded to the client, in order
    store,      \* events persisted by emit, in order
    mode,       \* "none", "seq" (no dependencies) or "par" (dependency batches)
    batches,    \* result of _build_execution_batches
    bi,         \* index of the batch being executed
    active,     \* tasks_to_execute of the current batch
    completed,  \* the `completed` set of _execute_plan_with_dependencies
    tpc,        \* position of each task's generator
    tstatus,    \* TaskService status of each task
    runs,       \* send_message calls made for each task
    rs,         \* state of the current remote stream of each task
    rem,        \* remaining poll intervals of _sleep_with_cancellation
    buf,        \* responses collected by consume_generator
    endEmitted, \* end_component_emitted of emit_subagent_end_once
    failure,    \* why fail_task was called for the task: "none", "error", "remote"
    lateComplete, \* complete_task was called for a task already finished
    complexQuery, \* the query holds the keywords of _should_fast_track_to_planner
    super_outcome \* what super_agent_service.run returned to _handle_new_request

\* process_user_input: the consumer side of the queue
VARIABLES consumerActive, delivered

\* Where each task's generator was when TaskService.cancel_task reached it.
VARIABLES cancelledAt

consumerVars == <<consumerActive, delivered>>

\* What the pipeline of a session (_generate_responses and below) never writes.
\* The task cancel endpoint: the task it names, the scheduled_task_controller
\* items of the store, and what each call left behind.
VARIABLES apiTask, apiItems, apiLog

apiVars == <<apiTask, apiItems, apiLog>>

\* Several sessions on one conversation, each step the code between two awaits.
VARIABLES
    status,             \* conversation.status in the conversation store
    title,              \* conversation.title in the store, 0 when empty
    titleLog,           \* every title update_conversation has persisted
    executionContexts,  \* _execution_contexts[conversation_id]
    userInputRequest,   \* the planner whose UserInputRequest PlanService holds, or 0
    planningTask,       \* state of each session's planner task
    answered,           \* the planner whose request was given each session's text, or 0
    asked,              \* UserInputRequests each planner has made
    pos,                \* where each session's _generate_responses is
    monitored,          \* the planning_task each session polls, 0 before
    snapshot,           \* the title get_conversation returned to each session
    out,                \* what each session has emitted and called, in order
    executed            \* the planner whose plan each session executed, or 0

convVars == <<status, title, titleLog, executionContexts, userInputRequest,
              planningTask, answered, asked, pos, monitored, snapshot, out,
              executed>>

\* One call of ExecutionPlanner.create_plan, taken alone.
VARIABLES
    ppc,                 \* "idle", "planning" (create_plan called) or "planned"
    recommended_agents,  \* the recommended_agents argument, <<>> for None
    investment,          \* the query holds one of the investment keywords
    run_response,        \* run_response.content of the planning agent
    planTasks,           \* plan.tasks
    planGuidance,        \* plan.guidance_message, "" for None
    agentRuns            \* calls of self.agent.run

planVars == <<ppc, recommended_agents, investment, run_response, planTasks,
              planGuidance, agentRuns>>

\* _build_execution_batches called on its own.
VARIABLES
    bpc,        \* "idle", "called" or "returned"
    tasksIn,    \* the List[Task] argument: task_id and depends_on of each task
    batchesOut  \* the batches returned, each the set of list positions in it

batchFnVars == <<bpc, tasksIn, batchesOut>>

\* One ScheduledTaskResultAccumulator: consume, then finalize.
VARIABLES
    apc,          \* "idle", "created", "consumed" or "finalized"
    responsesIn,  \* the responses handed to consume
    consumedOut,  \* what consume returned
    finalOut      \* what finalize returned, <<>> for None

accVars == <<apc, responsesIn, consumedOut, finalOut>>

\* One ExecutionContext and the event loop's clock, in seconds.
VARIABLES
    clock,       \* asyncio.get_event_loop().time()
    created_at,  \* ExecutionContext.created_at
    verdict      \* what _validate_execution_context returned, and for which user

ttlVars == <<clock, created_at, verdict>>

\* One call of process_user_input: its queue, its flag, the producer task
\* _run_session and the caller iterating over the generator.
VARIABLES
    qpc,       \* _run_session: "idle", "running" or "finished"
    ended_by,  \* how the pipeline ended: "", "return" or "exception"
    produced,  \* the responses _generate_responses has yielded, numbered from 1
    queue,     \* the asyncio.Queue; 0 is the None that ends the stream
    qactive,   \* active["value"]
    cpc,       \* the generator: "idle", "get", "yield", "ended" or "gone"
    received,  \* the responses yielded to the caller
    dropped    \* the items emit has returned on without enqueueing

queueVars == <<qpc, ended_by, produced, queue, qactive, cpc, received, dropped>>

\* Several calls of create_plan and the task ids handed out so far.
VARIABLES
    calls,      \* create_plan calls whose plan has been handed on
    registered  \* the task ids of the plans of those calls

idsVars == <<calls, registered>>

unitVars == <<batchFnVars, accVars, ttlVars, queueVars, idsVars>>

outsideVars == <<consumerVars, cancelledAt, apiVars, convVars, planVars, unitVars>>

vars == <<spc, target, conv, ctx, pending, planner, plan, stream, store, mode,
          batches, bi, active, completed, tpc, tstatus, runs, rs, rem, buf,
          endEmitted, failure, lateComplete, complexQuery, super_outcome,
          outsideVars>>

orchVars == <<target, conv, ctx, pending, planner, plan, complexQuery, super_outcome>>
batchVars == <<mode, batches, bi, active, completed>>
taskVars == <<tpc, tstatus, runs, rs, rem, buf, endEmitted, failure, lateComplete>>

\* ------------------------------------------------------------------ events
Ev(k, t, n) == <<k, t, n>>
Kind(e) == e[1]
TaskOf(e) == e[2]

RECURSIVE SeqOfSet(_)
SeqOfSet(S) ==
    IF S = {} THEN <<>>
    ELSE LET m == CHOOSE x \in S : \A y \in S : x <= y
         IN <<m>> \o SeqOfSet(S \ {m})

RECURSIVE Concat(_, _)
Concat(f, order) ==
    IF order = <<>> THEN <<>> ELSE f[Head(order)] \o Concat(f, Tail(order))

SelectKind(s, k, t) == SelectSeq(s, LAMBDA e : Kind(e) = k /\ TaskOf(e) = t)
Count(s, k, t) == Len(SelectKind(s, k, t))
Occurs(s, k, t) == \E i \in 1..Len(s) : Kind(s[i]) = k /\ TaskOf(s[i]) = t
Positions(s, k, t) == {i \in 1..Len(s) : Kind(s[i]) = k /\ TaskOf(s[i]) = t}

\* ------------------------------------------------------------------- plans
NoPlan == [n |-> 0, deps |-> <<>>, rec |-> {}, handoff |-> FALSE, guidance |-> ""]

\* Plans the planner can hand to the executor. depends_on is copied from the
\* planner response into the Task unchecked, so cyclic relations occur too.
\* Acyclic plans are listed with their tasks in a dependency order (each task
\* after the tasks it depends on); a plan with a guidance message has no tasks.
Acyclic(f, n) == \A S \in SUBSET (1..n) : S = {} \/ \E t \in S : f[t] \cap S = {}

DepsOf(n) ==
    {f \in [1..n -> SUBSET (1..n)] :
        /\ \A t \in 1..n : t \notin f[t]
        /\ Acyclic(f, n) => \A t \in 1..n : \A u \in f[t] : u < t}

\* The RECURRING tasks of a plan are among its first maxrec tasks.
RecOf(n, maxrec) == SUBSET {t \in 1..n : t <= maxrec}

TaskPlans(h, maxn, maxrec) ==
    UNION { { [n |-> n, deps |-> d, rec |-> r, handoff |-> h, guidance |-> ""] :
              d \in DepsOf(n), r \in RecOf(n, maxrec) } : n \in 1..maxn }

\* plan.guidance_message of a plan without tasks: None, the text about a
\* response that could not be parsed, or what the planning agent asks.
GuidancePlans(h) ==
    { [NoPlan EXCEPT !.guidance = g, !.handoff = h] : g \in {"", "malformed response", "confirm"} }

Plans(h, maxn, maxrec) == TaskPlans(h, maxn, maxrec) \cup GuidancePlans(h)

PlanTasks == 1..plan.n
IsScheduled(t) == t \in plan.rec
IsFinished(st) == st \in {"COMPLETED", "FAILED", "CANCELLED"}

\* ------------------------------------------------------------- TaskService
StartTaskStatus(st) == IF st = "PENDING" THEN "RUNNING" ELSE st
CompleteTaskStatus(st) == IF st = "RUNNING" THEN "COMPLETED" ELSE st
FailTaskStatus(st) == IF st = "RUNNING" THEN "FAILED" ELSE st
CancelTaskStatus(st) == IF IsFinished(st) THEN st ELSE "CANCELLED"

\* ------------------------------------------------- _build_execution_batches
RECURSIVE Peel(_, _, _)
Peel(deps, remaining, done) ==
    IF remaining = {} THEN <<>>
    ELSE LET ready == {t \in remaining : deps[t] \subseteq done}
             batch == IF ready = {} THEN remaining ELSE ready
         IN <<batch>> \o Peel(deps, remaining \ batch, done \cup batch)

BuildExecutionBatches(p) == Peel(p.deps, 1..p.n, {})

\* tasks_to_execute of one batch
TasksToExecute(p, batch, comp) == {t \in batch : p.deps[t] \subseteq comp}

\* The for loop over batches skips (continue) every batch with nothing to execute.
RECURSIVE NextBatch(_, _, _, _)
NextBatch(p, bs, i, comp) ==
    IF i > Len(bs) THEN i
    ELSE IF TasksToExecute(p, bs[i], comp) # {} THEN i
    ELSE NextBatch(p, bs, i + 1, comp)

HasDependencies(p) == \E t \in 1..p.n : p.deps[t] # {}

\* --------------------------------------------------------------- executor
RS0 == [sub |-> FALSE, msgs |-> 0, acc |-> 0]

\* A task generator yields evs: emit persists each event; in a dependency
\* batch consume_generator collects it, otherwise execute_plan yields it.
TaskYield(t, evs) ==
    /\ store' = store \o evs
    /\ IF mode = "par"
       THEN /\ buf' = [buf EXCEPT ![t] = @ \o evs]
            /\ UNCHANGED stream
       ELSE /\ stream' = stream \o evs
            /\ UNCHANGED buf

\* Mutant: the END component is emitted at every call, the flag is ignored.
SubagentEndAlways(t) ==
    IF plan.handoff THEN <<Ev("subagent_end", t, 0)>> ELSE <<>>

\* emit_subagent_end_once
SubagentEndOnce(t) ==
    IF plan.handoff /\ ~endEmitted[t] THEN <<Ev("subagent_end", t, 0)>> ELSE <<>>

\* Mutant: consume drops the three kinds for tasks of either pattern.
ConsumeAlwaysFilters(t, responses) ==
    SelectSeq(responses,
              LAMBDA e : Kind(e) \notin {"message_chunk", "reasoning", "tool_call"})

\* ScheduledTaskResultAccumulator.consume
Consume(t, responses) ==
    IF ~IsScheduled(t) THEN responses
    ELSE SelectSeq(responses,
                   LAMBDA e : Kind(e) \notin {"message_chunk", "reasoning", "tool_call"})

\* ScheduledTaskResultAccumulator.finalize
Finalize(t) ==
    IF ~IsScheduled(t) THEN <<>> ELSE <<Ev("schedule_task_result", t, 0)>>

\* Mutant: every generator of the plan is started at once, whatever its batch.
MayStartEager(t) == TRUE

\* Mutant: the tasks of a plan always run one after the other.
MayStartSequential(t) == \A u \in PlanTasks : u < t => tpc[u] = "done"

\* Which tasks _execute_plan_with_dependencies / execute_plan lets start now.
MayStart(t) ==
    IF mode = "par" THEN t \in active
    ELSE \A u \in PlanTasks : u < t => tpc[u] = "done"

\* _execute_task after the loop: complete_task, task_completed, and the
\* finally of _execute_single_task_in_plan.
TerminalEvents(t) == <<Ev("task_completed", t, 0)>>

Finish(t, st, pre, failedNow) ==
    /\ tstatus' = [tstatus EXCEPT ![t] = CompleteTaskStatus(st)]
    /\ failure' = [failure EXCEPT ![t] = IF failedNow THEN "remote" ELSE @]
    /\ lateComplete' = [lateComplete EXCEPT ![t] = @ \/ IsFinished(st)]
    /\ TaskYield(t, pre \o TerminalEvents(t) \o SubagentEndOnce(t))
    /\ endEmitted' = [endEmitted EXCEPT ![t] = @ \/ plan.handoff]
    /\ tpc' = [tpc EXCEPT ![t] = "done"]
    /\ rs' = [rs EXCEPT ![t] = RS0]
    /\ rem' = [rem EXCEPT ![t] = 0]
    /\ UNCHANGED runs

\* The end of one _execute_single_task_run inside the while loop of
\* _execute_task: a ONCE task breaks; a RECURRING task enters
\* _sleep_with_cancellation, which returns at once when the task is finished.
AfterRun(t, st, pre, failedNow) ==
    IF ~IsScheduled(t) \/ IsFinished(st)
    THEN Finish(t, st, pre, failedNow)
    ELSE /\ tstatus' = [tstatus EXCEPT ![t] = st]
         /\ failure' = [failure EXCEPT ![t] = IF failedNow THEN "remote" ELSE @]
         /\ TaskYield(t, pre)
         /\ tpc' = [tpc EXCEPT ![t] = "sleeping"]
         /\ rs' = [rs EXCEPT ![t] = RS0]
         /\ rem' = [rem EXCEPT ![t] = DelayTicks]
         /\ UNCHANGED <<runs, endEmitted, lateComplete>>

\* Mutant: the exception is not caught by _execute_single_task_in_plan and
\* reaches the except clause of _generate_responses.
OnTaskErrorPropagates(t) ==
    /\ tstatus' = [tstatus EXCEPT ![t] = FailTaskStatus(@)]
    /\ failure' = [failure EXCEPT ![t] = "error"]
    /\ store' = store \o <<Ev("system_failed", 0, 0)>>
    /\ stream' = stream \o <<Ev("system_failed", 0, 0)>>
    /\ tpc' = [tpc EXCEPT ![t] = "done"]
    /\ rs' = [rs EXCEPT ![t] = RS0]
    /\ spc' = "finally"
    /\ UNCHANGED <<buf, endEmitted, runs, rem, lateComplete>>

\* An exception inside _execute_task: fail_task and re-raise, caught by
\* _execute_single_task_in_plan, which emits task_failed.
OnTaskError(t) ==
    /\ tstatus' = [tstatus EXCEPT ![t] = FailTaskStatus(@)]
    /\ failure' = [failure EXCEPT ![t] = "error"]
    /\ TaskYield(t, <<Ev("task_failed", t, 0)>> \o SubagentEndOnce(t))
    /\ endEmitted' = [endEmitted EXCEPT ![t] = @ \/ plan.handoff]
    /\ tpc' = [tpc EXCEPT ![t] = "done"]
    /\ rs' = [rs EXCEPT ![t] = RS0]
    /\ UNCHANGED <<spc, runs, rem, lateComplete>>

\* _execute_single_task_in_plan up to the first remote call.
StartTask(t) ==
    /\ spc = "executing"
    /\ t \in PlanTasks
    /\ tpc[t] = "pending"
    /\ MayStart(t)
    /\ tstatus' = [tstatus EXCEPT ![t] = StartTaskStatus(@)]
    /\ TaskYield(t,
          (IF plan.handoff
           THEN <<Ev("subagent_start", t, 0), Ev("thread_started", t, 0)>>
           ELSE <<>>) \o
          (IF IsScheduled(t)
           THEN <<Ev("scheduled_task_controller", t, 0)>> \o SubagentEndOnce(t)
                \o <<Ev("done", t, 0)>>
           ELSE <<>>))
    /\ endEmitted' = [endEmitted EXCEPT ![t] = IsScheduled(t) /\ plan.handoff]
    /\ tpc' = [tpc EXCEPT ![t] = "invoke"]
    /\ UNCHANGED <<spc, orchVars, batchVars, runs, rs, rem, failure, lateComplete>>
    /\ UNCHANGED outsideVars

\* get_client and send_message succeed.
SendMessage(t) ==
    /\ spc = "executing"
    /\ tpc[t] = "invoke"
    /\ runs[t] < (IF IsScheduled(t) THEN MaxRuns ELSE 1)
    /\ runs' = [runs EXCEPT ![t] = @ + 1]
    /\ tpc' = [tpc EXCEPT ![t] = "streaming"]
    /\ UNCHANGED <<spc, orchVars, batchVars, stream, store, tstatus, rs, rem, buf,
                   endEmitted, failure, lateComplete>>
    /\ UNCHANGED outsideVars

\* The agent cannot be reached, or its stream breaks.
TransportError(t) ==
    /\ spc = "executing"
    /\ tpc[t] \in {"invoke", "streaming"}
    /\ OnTaskError(t)
    /\ UNCHANGED <<orchVars, batchVars>>
    /\ UNCHANGED outsideVars

\* Mutant: task_started is emitted for the first invocation of a task only.
RemoteSubmittedFirstOnly(t) ==
    /\ spc = "executing"
    /\ tpc[t] = "streaming"
    /\ ~rs[t].sub
    /\ rs' = [rs EXCEPT ![t].sub = TRUE]
    /\ TaskYield(t, IF runs[t] = 1 THEN <<Ev("task_started", t, 0)>> ELSE <<>>)
    /\ UNCHANGED <<spc, orchVars, batchVars, tpc, tstatus, runs, rem, endEmitted,
                   failure, lateComplete>>
    /\ UNCHANGED outsideVars

\* The remote agent reports submitted.
RemoteSubmitted(t) ==
    /\ spc = "executing"
    /\ tpc[t] = "streaming"
    /\ ~rs[t].sub
    /\ rs' = [rs EXCEPT ![t].sub = TRUE]
    /\ TaskYield(t, <<Ev("task_started", t, 0)>>)
    /\ UNCHANGED <<spc, orchVars, batchVars, tpc, tstatus, runs, rem, endEmitted,
                   failure, lateComplete>>
    /\ UNCHANGED outsideVars

\* A working status update carrying a message.
RemoteWorking(t) ==
    /\ spc = "executing"
    /\ tpc[t] = "streaming"
    /\ rs[t].sub
    /\ rs[t].msgs < MaxMsgs
    /\ rs' = [rs EXCEPT ![t].msgs = @ + 1,
                        ![t].acc = IF IsScheduled(t) THEN @ + 1 ELSE @]
    /\ TaskYield(t, Consume(t, <<Ev("message_chunk", t, rs[t].msgs + 1)>>))
    /\ UNCHANGED <<spc, orchVars, batchVars, tpc, tstatus, runs, rem, endEmitted,
                   failure, lateComplete>>
    /\ UNCHANGED outsideVars

\* A terminal status update: route_task_status returns done, and a FAIL_TASK
\* side effect when the remote failed; _execute_single_task_run returns
\* before accumulator.finalize.
RemoteTerminal(t) ==
    /\ spc = "executing"
    /\ tpc[t] = "streaming"
    /\ rs[t].sub
    /\ \E failed \in BOOLEAN :
         AfterRun(t, IF failed THEN FailTaskStatus(tstatus[t]) ELSE tstatus[t],
                  <<>>, failed)
    /\ UNCHANGED <<spc, orchVars, batchVars>>
    /\ UNCHANGED outsideVars

\* The remote stream ends without a terminal status: finalize runs.
RemoteEnds(t) ==
    /\ spc = "executing"
    /\ tpc[t] = "streaming"
    /\ rs[t].sub
    /\ AfterRun(t, tstatus[t], Finalize(t), FALSE)
    /\ UNCHANGED <<spc, orchVars, batchVars>>
    /\ UNCHANGED outsideVars

\* Mutant: neither _sleep_with_cancellation nor the loop looks at is_finished.
SleepTickNoFinishedCheck(t) ==
    /\ spc = "executing"
    /\ tpc[t] = "sleeping"
    /\ rem' = [rem EXCEPT ![t] = @ - 1]
    /\ tpc' = [tpc EXCEPT ![t] = IF rem[t] = 1 THEN "invoke" ELSE "sleeping"]
    /\ UNCHANGED <<stream, store, buf, tstatus, runs, rs, endEmitted, failure, lateComplete>>
    /\ UNCHANGED <<spc, orchVars, batchVars, outsideVars>>

\* Mutant: the whole delay is slept in one piece and is_finished is looked at
\* only afterwards.
SleepTickChecksAtEnd(t) ==
    /\ spc = "executing"
    /\ tpc[t] = "sleeping"
    /\ IF IsFinished(tstatus[t]) /\ rem[t] = 1
       THEN Finish(t, tstatus[t], <<>>, FALSE)
       ELSE /\ rem' = [rem EXCEPT ![t] = @ - 1]
            /\ tpc' = [tpc EXCEPT ![t] = IF rem[t] = 1 THEN "invoke" ELSE "sleeping"]
            /\ UNCHANGED <<stream, store, buf, tstatus, runs, rs, endEmitted,
                           failure, lateComplete>>
    /\ UNCHANGED <<spc, orchVars, batchVars, outsideVars>>

\* One poll interval of _sleep_with_cancellation, then the is_finished check
\* (the loop's, or the one after the sleep).
SleepTick(t) ==
    /\ spc = "executing"
    /\ tpc[t] = "sleeping"
    /\ IF IsFinished(tstatus[t])
       THEN Finish(t, tstatus[t], <<>>, FALSE)
       ELSE /\ rem' = [rem EXCEPT ![t] = @ - 1]
            /\ tpc' = [tpc EXCEPT ![t] = IF rem[t] = 1 THEN "invoke" ELSE "sleeping"]
            /\ UNCHANGED <<stream, store, buf, tstatus, runs, rs, endEmitted,
                           failure, lateComplete>>
    /\ UNCHANGED <<spc, orchVars, batchVars>>
    /\ UNCHANGED outsideVars

NotCancelled == [at |-> "none", rem |-> 0, runs |-> 0]

\* TaskService.cancel_task from the cancel endpoint.
CancelTask(t) ==
    /\ spc = "executing"
    /\ IsScheduled(t)
    /\ tpc[t] \in {"invoke", "streaming", "sleeping"}
    /\ ~IsFinished(tstatus[t])
    /\ tstatus' = [tstatus EXCEPT ![t] = CancelTaskStatus(@)]
    /\ cancelledAt' = [cancelledAt EXCEPT ![t] = [at |-> tpc[t], rem |-> rem[t], runs |-> runs[t]]]
    /\ UNCHANGED <<spc, orchVars, batchVars, stream, store, tpc, runs, rs, rem, buf,
                   endEmitted, failure, lateComplete>>
    /\ UNCHANGED <<consumerVars, apiVars, convVars, planVars, unitVars>>

\* ------------------------------------------------------------ execute_plan
SessionYield(evs) ==
    /\ store' = store \o evs
    /\ stream' = stream \o evs

Reverse(q) == [i \in 1..Len(q) |-> q[Len(q) + 1 - i]]

\* Mutant: each collected list is yielded last response first.
MergeReversed(bufs, tasks) ==
    Concat([t \in TaskIds |-> Reverse(bufs[t])], SeqOfSet(tasks))

\* _merge_task_responses: the collected lists, one task after the other.
MergeTaskResponses(bufs, tasks) == Concat(bufs, SeqOfSet(tasks))

\* The task_completed events sent after a batch.
BatchCompletedEvents(tasks) ==
    [i \in 1..Cardinality(tasks) |-> Ev("task_completed", SeqOfSet(tasks)[i], 0)]

\* What the loop over a batch adds to `completed`.
MarkCompleted(comp, tasks) == comp \cup tasks

\* Mutant: the guidance message is sent as a plan_failed event.
GuidanceResponsePlanFailed == <<Ev("plan_failed", 0, 0)>>

\* execute_plan, plan.guidance_message set: one MESSAGE_CHUNK of agent
\* "Planner" carrying the message.
GuidanceResponse == <<Ev("message_chunk", 0, 0)>>

\* Mutant: a plan with a guidance message is run like a plan without tasks.
ExecutePlanSkipsGuidance ==
    /\ spc = "execute_plan"
    /\ plan.n = 0
    /\ spc' = "finally"
    /\ UNCHANGED <<stream, store, orchVars, batchVars, taskVars>>
    /\ UNCHANGED outsideVars

ExecutePlan ==
    /\ spc = "execute_plan"
    /\ IF plan.guidance # ""
       THEN /\ SessionYield(GuidanceResponse)
            /\ spc' = "finally"
            /\ UNCHANGED batchVars
       ELSE IF ~HasDependencies(plan)
       THEN /\ mode' = "seq"
            /\ spc' = "executing"
            /\ UNCHANGED <<stream, store, batches, bi, active, completed>>
       ELSE LET bs == BuildExecutionBatches(plan)
                i == NextBatch(plan, bs, 1, {})
            IN /\ mode' = "par"
               /\ batches' = bs
               /\ bi' = i
               /\ active' = IF i > Len(bs) THEN {} ELSE TasksToExecute(plan, bs[i], {})
               /\ spc' = IF i > Len(bs) THEN "finally" ELSE "executing"
               /\ UNCHANGED <<stream, store, completed>>
    /\ UNCHANGED <<orchVars, taskVars>>
    /\ UNCHANGED outsideVars

\* Sequential (no dependency) path: the for loop of execute_plan is over.
ExecutePlanEnd ==
    /\ spc = "executing"
    /\ mode = "seq"
    /\ \A t \in PlanTasks : tpc[t] = "done"
    /\ spc' = "finally"
    /\ UNCHANGED <<orchVars, batchVars, taskVars, stream, store>>
    /\ UNCHANGED outsideVars

\* asyncio.gather has returned for the batch: yield the collected responses,
\* mark the tasks completed, send task_completed for each, go to the next
\* batch that has something to execute.
BatchDone ==
    /\ spc = "executing"
    /\ mode = "par"
    /\ \A t \in active : tpc[t] = "done"
    /\ LET comp == MarkCompleted(completed, active)
           i == NextBatch(plan, batches, bi + 1, comp)
       IN /\ stream' = stream \o MergeTaskResponses(buf, active)
                              \o BatchCompletedEvents(active)
          /\ store' = store \o BatchCompletedEvents(active)
          /\ completed' = comp
          /\ bi' = i
          /\ active' = IF i > Len(batches) THEN {}
                       ELSE TasksToExecute(plan, batches[i], comp)
          /\ spc' = IF i > Len(batches) THEN "finally" ELSE "executing"
    /\ buf' = [t \in TaskIds |-> <<>>]
    /\ UNCHANGED <<orchVars, mode, batches, tpc, tstatus, runs, rs, rem,
                   endEmitted, failure, lateComplete>>
    /\ UNCHANGED outsideVars

\* ------------------------------------------------------------ orchestrator
\* Mutant: done is yielded on the normal path only, not in a finally clause.
PipelineErrorSkipsDone ==
    /\ store' = store \o <<Ev("system_failed", 0, 0)>>
    /\ stream' = stream \o <<Ev("system_failed", 0, 0)>>
    /\ spc' = "closed"

\* An exception reaches the except clause of _generate_responses.
PipelineError ==
    /\ SessionYield(<<Ev("system_failed", 0, 0)>>)
    /\ spc' = "finally"

\* _generate_responses: ensure_conversation, conversation_started, dispatch.
GenerateResponses ==
    /\ spc = "start"
    /\ \/ /\ PipelineError
          /\ UNCHANGED conv
       \/ /\ conv' = IF conv = "absent" THEN "ACTIVE" ELSE conv
          /\ SessionYield(IF conv = "absent"
                          THEN <<Ev("conversation_started", 0, 0)>> ELSE <<>>)
          /\ spc' = IF conv = "REQUIRE_USER_INPUT" THEN "continuation"
                    ELSE "new_request"
    /\ UNCHANGED <<complexQuery, super_outcome, target, ctx, pending, planner, plan, batchVars, taskVars>>
    /\ UNCHANGED outsideVars

\* _cancel_execution
CancelExecution ==
    /\ ctx' = "none"
    /\ planner' = IF ctx # "none" /\ planner \in {"running", "waiting"}
                  THEN "cancelled" ELSE planner
    /\ pending' = FALSE
    /\ conv' = "ACTIVE"

\* _handle_conversation_continuation up to _continue_planning.
HandleConversationContinuation ==
    /\ spc = "continuation"
    /\ IF ctx = "none"
       THEN /\ PipelineError
            /\ UNCHANGED <<ctx, planner, pending, conv>>
       ELSE IF ctx = "invalid"
       THEN /\ PipelineError
            /\ CancelExecution
       ELSE /\ SessionYield(<<Ev("thread_started", 0, 0)>>)
            /\ pending' = FALSE
            /\ planner' = IF pending /\ planner = "waiting" THEN "running" ELSE planner
            /\ conv' = IF pending THEN "ACTIVE" ELSE conv
            /\ spc' = "continue_planning"
            /\ UNCHANGED ctx
    /\ UNCHANGED <<complexQuery, super_outcome, target, plan, batchVars, taskVars>>
    /\ UNCHANGED outsideVars

\* _should_fast_track_to_planner
ShouldFastTrackToPlanner == IF target = "SuperAgent" THEN FALSE ELSE complexQuery

\* _handle_new_request: thread_started, then triage only when the query is
\* not fast-tracked and the SuperAgent is the target, else straight to the
\* planner.
HandleNewRequest ==
    /\ spc = "new_request"
    /\ SessionYield(<<Ev("thread_started", 0, 0)>>)
    /\ IF ~ShouldFastTrackToPlanner /\ target = "SuperAgent"
       THEN /\ spc' = "triage"
            /\ UNCHANGED planner
       ELSE /\ spc' = "monitor"
            /\ planner' = "running"
    /\ UNCHANGED <<complexQuery, super_outcome, target, conv, ctx, pending, plan, batchVars, taskVars>>
    /\ UNCHANGED outsideVars

\* SuperAgentOutcome: the decision and whether answer_content is set.
NoOutcome == [decision |-> "none", answer_content |-> FALSE]

\* Mutant: a handoff is taken for every outcome, an answer included.
DecisionAlwaysHandoff(o) == TRUE

\* super_outcome.decision == SuperAgentDecision.HANDOFF_TO_PLANNER
DecisionHandoff(o) == o.decision = "handoff_to_planner"

\* super_agent_service.run and the handling of its outcome: answer_content
\* is sent as a message_chunk when it is set, whatever the decision.
SuperAgentRun ==
    /\ spc = "triage"
    /\ \/ /\ PipelineError
          /\ UNCHANGED <<target, planner, super_outcome>>
       \/ \E o \in [decision : {"answer", "handoff_to_planner"}, answer_content : BOOLEAN] :
            /\ super_outcome' = o
            /\ SessionYield(IF o.answer_content
                            THEN <<Ev("message_chunk", 0, 0)>> ELSE <<>>)
            /\ IF DecisionHandoff(o)
               THEN /\ target' = ""
                    /\ planner' = "running"
                    /\ spc' = "monitor"
               ELSE /\ spc' = "finally"
                    /\ UNCHANGED <<target, planner>>
    /\ UNCHANGED <<conv, ctx, pending, plan, complexQuery, batchVars, taskVars>>
    /\ UNCHANGED outsideVars

\* The planner asks for user input through the callback and blocks.
PlannerRequestsInput ==
    /\ planner = "running"
    /\ spc \in {"monitor", "continue_planning"}
    /\ planner' = "waiting"
    /\ pending' = TRUE
    /\ UNCHANGED <<spc, complexQuery, super_outcome, target, conv, ctx, plan, stream, store,
                   batchVars, taskVars>>
    /\ UNCHANGED outsideVars

\* The planner task ends: with a plan, or with an exception.
PlannerReturns ==
    /\ planner = "running"
    /\ spc \in {"monitor", "continue_planning"}
    /\ \/ /\ planner' = "done"
          /\ plan' \in Plans(target # "Other", SessionTasks, SessionTasks)
       \/ /\ planner' = "raised"
          /\ UNCHANGED plan
    /\ UNCHANGED <<spc, complexQuery, super_outcome, target, conv, ctx, pending, stream,
                   store, batchVars, taskVars>>
    /\ UNCHANGED outsideVars

\* The events yielded between the end of planning and execute_plan.
PlanDisplay(p) ==
    IF p.n > 1 THEN <<Ev("execution_plan", 0, 0)>> ELSE <<>>

\* _monitor_planning_task
MonitorPlanningTask ==
    /\ spc = "monitor"
    /\ \/ /\ planner = "waiting"
          /\ pending
          /\ ctx' = "valid"
          /\ conv' = "REQUIRE_USER_INPUT"
          /\ SessionYield(<<Ev("plan_require_user_input", 0, 0)>>)
          /\ spc' = "finally"
       \/ /\ planner = "done"
          /\ SessionYield(PlanDisplay(plan))
          /\ spc' = "execute_plan"
          /\ UNCHANGED <<ctx, conv>>
       \/ /\ planner = "raised"
          /\ PipelineError
          /\ UNCHANGED <<ctx, conv>>
    /\ UNCHANGED <<complexQuery, super_outcome, target, pending, planner, plan, batchVars,
                   taskVars>>
    /\ UNCHANGED outsideVars

\* _continue_planning
ContinuePlanning ==
    /\ spc = "continue_planning"
    /\ \/ /\ planner = "waiting"
          /\ pending
          /\ conv' = "REQUIRE_USER_INPUT"
          /\ SessionYield(<<Ev("plan_require_user_input", 0, 0)>>)
          /\ spc' = "finally"
          /\ UNCHANGED ctx
       \/ /\ planner = "done"
          /\ ctx' = "none"
          /\ spc' = "execute_plan"
          /\ UNCHANGED <<conv, stream, store>>
       \/ /\ planner \in {"raised", "cancelled"}
          /\ PipelineError
          /\ UNCHANGED <<ctx, conv>>
    /\ UNCHANGED <<complexQuery, super_outcome, target, pending, planner, plan, batchVars,
                   taskVars>>
    /\ UNCHANGED outsideVars

\* The finally clause of _generate_responses: done is yielded as built by
\* the factory.
SessionDone == <<Ev("done", 0, 0)>>

Finally ==
    /\ spc = "finally"
    /\ stream' = stream \o SessionDone
    /\ spc' = "closed"
    /\ UNCHANGED <<store, orchVars, batchVars, taskVars>>
    /\ UNCHANGED outsideVars

\* -------------------------------------------------------- process_user_input
\* What the consumer of process_user_input has been handed: emit puts each
\* response of _run_session on the queue while `active` is set.
Client == IF consumerActive THEN stream ELSE SubSeq(stream, 1, delivered)

\* Mutant: the generator cancels the producer task when its consumer goes.
DisconnectCancelsProducer ==
    /\ spc # "closed"
    /\ consumerActive
    /\ consumerActive' = FALSE
    /\ delivered' = Len(stream)
    /\ spc' = "closed"
    /\ UNCHANGED <<orchVars, batchVars, taskVars, stream, store, cancelledAt, apiVars,
                   convVars, planVars, unitVars>>

\* The consumer stops iterating (CancelledError or generator close): the
\* finally clause clears `active`; the producer task is left alone.
Disconnect ==
    /\ spc # "closed"
    /\ consumerActive
    /\ consumerActive' = FALSE
    /\ delivered' = Len(stream)
    /\ UNCHANGED <<spc, orchVars, batchVars, taskVars, stream, store, cancelledAt,
                   apiVars, convVars, planVars, unitVars>>

OutsideInit ==
    /\ consumerActive = TRUE
    /\ delivered = 0
    /\ cancelledAt = [t \in TaskIds |-> NotCancelled]

ApiIdle ==
    /\ apiTask = "absent"
    /\ apiItems = <<>>
    /\ apiLog = <<>>

\* ------------------------------------------------- cancel_and_update_component
MaxItems == 2
MaxCalls == 3

\* A scheduled_task_controller item: `col` says whether its task_id column is
\* the task of the call; json is whether the payload parses; content is
\* "none" (absent or not a string), "bad" (a string that is no JSON object)
\* or "obj", and then tid and st are the task_id and task_status in it.
Contents ==
    { [content |-> "none", tid |-> "none", st |-> "none"],
      [content |-> "bad", tid |-> "none", st |-> "none"] } \cup
    [content : {"obj"}, tid : {"mine", "other", "none"}, st : {"running", "cancelled"}]

ControllerItems ==
    { [col |-> c, json |-> TRUE, content |-> k.content, tid |-> k.tid, st |-> k.st] :
        c \in BOOLEAN, k \in Contents } \cup
    { [col |-> c, json |-> FALSE, content |-> "none", tid |-> "none", st |-> "none"] :
        c \in BOOLEAN }

\* TaskService.cancel_task: whether it cancelled the task.
Cancellable(st) == st # "absent" /\ ~IsFinished(st)

\* Mutant: only the task_id column is compared, the payload is not inspected.
ItemMatchesColumnOnly(it) == it.col

\* The first try block of the loop: does the item belong to the task.
ItemMatches(it) ==
    \/ it.col
    \/ it.json /\ it.content = "obj" /\ it.tid = "mine"

\* The second try block: is the matching item written back.
ItemUpdated(it) == ItemMatches(it) /\ it.json /\ it.content # "bad"

\* The payload written back by add_item under the same item_id.
UpdatedItem(it) == [it EXCEPT !.content = "obj", !.st = "cancelled"]

CancelAndUpdateComponent ==
    /\ Len(apiLog) < MaxCalls
    /\ LET cancelled == Cancellable(apiTask)
           updated_ids == {i \in 1..Len(apiItems) : ItemUpdated(apiItems[i])}
           response == [success |-> cancelled \/ updated_ids # {},
                        updated_component_ids |-> updated_ids]
           after == [i \in 1..Len(apiItems) |->
                        IF i \in updated_ids THEN UpdatedItem(apiItems[i]) ELSE apiItems[i]]
       IN /\ apiTask' = (IF apiTask = "absent" THEN "absent" ELSE CancelTaskStatus(apiTask))
          /\ apiItems' = after
          /\ apiLog' = Append(apiLog, [status |-> apiTask', items |-> after,
                                       response |-> response])
    /\ UNCHANGED <<spc, orchVars, batchVars, taskVars, stream, store, consumerVars,
                   cancelledAt, convVars, planVars, unitVars>>

\* ------------------------------------------- sessions of one conversation
NumSessions == 4     \* sessions (calls of process_user_input) on the conversation
MaxAsks == 2         \* most UserInputRequests of one planner

Sessions == 1..NumSessions

\* user_input.meta.user_id of each session: the last one is another user.
UserOf(s) == IF s = NumSessions THEN 2 ELSE 1

NoContext == [present |-> FALSE, owner |-> 0, task |-> 0, expired |-> FALSE]

\* ExecutionContext("planning", conversation_id, thread_id, user_id) with
\* planning_task in its metadata.
ContextOf(s, p) == [present |-> TRUE, owner |-> UserOf(s), task |-> p, expired |-> FALSE]

ValidateExecutionContext(c, u) == c.owner = u /\ ~c.expired

\* asyncio.Task.done()
TaskDone(p) == planningTask[p] \in {"done", "raised", "cancelled"}

Log(s, evs) == [out EXCEPT ![s] = @ \o evs]
Goto(s, l) == [pos EXCEPT ![s] = l]
Has(s, e) == \E i \in 1..Len(out[s]) : out[s][i] = e

pipelineVars == <<spc, orchVars, batchVars, taskVars, stream, store>>
restVars == <<pipelineVars, consumerVars, cancelledAt, apiVars, planVars, unitVars>>

\* _generate_responses from ensure_conversation to the first await of the
\* handler the conversation status selects. The sessions of one user are
\* numbered in the order they arrive.
StartSession(s) ==
    /\ pos[s] = "idle"
    /\ \A r \in Sessions : (r < s /\ UserOf(r) = UserOf(s)) => pos[r] # "idle"
    /\ IF status = "REQUIRE_USER_INPUT"
       THEN IF ~executionContexts.present
            THEN pos' = Goto(s, "missing") /\ UNCHANGED monitored
            ELSE IF ~ValidateExecutionContext(executionContexts, UserOf(s))
                 THEN pos' = Goto(s, "invalid") /\ UNCHANGED monitored
                 ELSE /\ pos' = Goto(s, "resume")
                      /\ monitored' = [monitored EXCEPT ![s] = executionContexts.task]
       ELSE pos' = Goto(s, "new") /\ UNCHANGED monitored
    /\ UNCHANGED <<status, title, titleLog, executionContexts, userInputRequest,
                   planningTask, answered, asked, snapshot, out, executed, restVars>>

\* _handle_conversation_continuation without a context.
RejectMissing(s) ==
    /\ pos[s] = "missing"
    /\ out' = Log(s, <<"system_failed">>)
    /\ pos' = Goto(s, "finally")
    /\ UNCHANGED <<status, title, titleLog, executionContexts, userInputRequest,
                   planningTask, answered, asked, monitored, snapshot, executed,
                   restVars>>

\* _cancel_execution: planning_task.cancel() unless the task is done.
CancelPlanner(c) ==
    IF c.present /\ ~TaskDone(c.task)
    THEN [planningTask EXCEPT ![c.task] = "cancelled"]
    ELSE planningTask

\* _handle_conversation_continuation with a context that fails validation:
\* system_failed, then _cancel_execution up to its await of activate.
RejectInvalid(s) ==
    /\ pos[s] = "invalid"
    /\ out' = Log(s, <<"system_failed", "cancel_execution">>)
    /\ executionContexts' = NoContext
    /\ planningTask' = CancelPlanner(executionContexts)
    /\ userInputRequest' = 0
    /\ pos' = Goto(s, "reactivate")
    /\ UNCHANGED <<status, title, titleLog, answered, asked, monitored, snapshot,
                   executed, restVars>>

\* conversation_service.activate at the end of _cancel_execution.
ActivateRejected(s) ==
    /\ pos[s] = "reactivate"
    /\ status' = "ACTIVE"
    /\ pos' = Goto(s, "finally")
    /\ UNCHANGED <<title, titleLog, executionContexts, userInputRequest, planningTask,
                   answered, asked, monitored, snapshot, out, executed, restVars>>

\* _handle_new_request for a named agent: thread_started, start_planning_task.
StartPlanning(s) ==
    /\ pos[s] = "new"
    /\ out' = Log(s, <<"thread_started", "start_planning_task">>)
    /\ planningTask' = [planningTask EXCEPT ![s] = "running"]
    /\ monitored' = [monitored EXCEPT ![s] = s]
    /\ pos' = Goto(s, "monitor")
    /\ UNCHANGED <<status, title, titleLog, executionContexts, userInputRequest,
                   answered, asked, snapshot, executed, restVars>>

\* `plan = await planning_task` of a task that is done.
AwaitPlan(s, next) ==
    \/ /\ planningTask[monitored[s]] = "done"
       /\ pos' = Goto(s, next)
       /\ UNCHANGED out
    \/ /\ planningTask[monitored[s]] = "raised"
       /\ out' = Log(s, <<"system_failed">>)
       /\ pos' = Goto(s, "finally")
    \/ /\ planningTask[monitored[s]] = "cancelled"
       /\ pos' = Goto(s, "finally")
       /\ UNCHANGED out

\* Mutant: the pause of _monitor_planning_task stores no context.
MonitorPollNoContext(s) ==
    /\ pos[s] = "monitor"
    /\ \/ AwaitPlan(s, "title")
       \/ /\ ~TaskDone(monitored[s])
          /\ userInputRequest # 0
          /\ pos' = Goto(s, "require")
          /\ UNCHANGED out
    /\ UNCHANGED executionContexts
    /\ UNCHANGED <<status, title, titleLog, userInputRequest, planningTask, answered,
                   asked, monitored, snapshot, executed, restVars>>

\* One turn of the loop of _monitor_planning_task that does not sleep: the
\* task is done, or a request is pending and the context is stored.
MonitorPoll(s) ==
    /\ pos[s] = "monitor"
    /\ \/ AwaitPlan(s, "title") /\ UNCHANGED executionContexts
       \/ /\ ~TaskDone(monitored[s])
          /\ userInputRequest # 0
          /\ executionContexts' = ContextOf(s, monitored[s])
          /\ out' = Log(s, <<"context_stored">>)
          /\ pos' = Goto(s, "require")
    /\ UNCHANGED <<status, title, titleLog, userInputRequest, planningTask, answered,
                   asked, monitored, snapshot, executed, restVars>>

\* conversation_service.require_user_input, then plan_require_user_input is
\* emitted and the handler returns.
RequireUserInput(s) ==
    /\ pos[s] = "require"
    /\ status' = "REQUIRE_USER_INPUT"
    /\ out' = Log(s, <<"require_user_input", "plan_require_user_input">>)
    /\ pos' = Goto(s, "finally")
    /\ UNCHANGED <<title, titleLog, executionContexts, userInputRequest, planningTask,
                   answered, asked, monitored, snapshot, executed, restVars>>

\* Mutant: the resumed session starts a planner of its own.
ResumeThreadRestartsPlanner(s) ==
    /\ pos[s] = "resume"
    /\ out' = Log(s, <<"thread_started", "start_planning_task">>)
    /\ planningTask' = [planningTask EXCEPT ![s] = "running"]
    /\ monitored' = [monitored EXCEPT ![s] = s]
    /\ pos' = Goto(s, "continue")
    /\ UNCHANGED <<userInputRequest, answered>>
    /\ UNCHANGED <<status, title, titleLog, executionContexts, asked, snapshot,
                   executed, restVars>>

\* _handle_conversation_continuation with a valid context: thread_started,
\* then provide_user_response, which sets the event of the pending request.
ResumeThread(s) ==
    /\ pos[s] = "resume"
    /\ IF userInputRequest # 0
       THEN /\ out' = Log(s, <<"thread_started", "provide_user_response">>)
            /\ answered' = [answered EXCEPT ![s] = userInputRequest]
            /\ planningTask' = [planningTask EXCEPT ![userInputRequest] = "running"]
            /\ userInputRequest' = 0
            /\ pos' = Goto(s, "activate")
       ELSE /\ out' = Log(s, <<"thread_started">>)
            /\ pos' = Goto(s, "continue")
            /\ UNCHANGED <<answered, planningTask, userInputRequest>>
    /\ UNCHANGED monitored
    /\ UNCHANGED <<status, title, titleLog, executionContexts, asked, snapshot,
                   executed, restVars>>

\* conversation_service.activate after provide_user_response returned True.
ActivateResumed(s) ==
    /\ pos[s] = "activate"
    /\ status' = "ACTIVE"
    /\ out' = Log(s, <<"activate">>)
    /\ pos' = Goto(s, "continue")
    /\ UNCHANGED <<title, titleLog, executionContexts, userInputRequest, planningTask,
                   answered, asked, monitored, snapshot, executed, restVars>>

\* One turn of the loop of _continue_planning that does not sleep: the task
\* is done and the context is deleted, or a request is pending again.
ContinuePoll(s) ==
    /\ pos[s] = "continue"
    /\ \/ /\ planningTask[monitored[s]] = "done"
          /\ IF executionContexts.present
             THEN /\ executionContexts' = NoContext
                  /\ out' = Log(s, <<"context_deleted">>)
                  /\ pos' = Goto(s, "title")
             ELSE /\ out' = Log(s, <<"system_failed">>)
                  /\ pos' = Goto(s, "finally")
                  /\ UNCHANGED executionContexts
       \/ /\ planningTask[monitored[s]] \in {"raised", "cancelled"}
          /\ AwaitPlan(s, "title")
          /\ UNCHANGED executionContexts
       \/ /\ ~TaskDone(monitored[s])
          /\ userInputRequest # 0
          /\ pos' = Goto(s, "require")
          /\ UNCHANGED <<out, executionContexts>>
    /\ UNCHANGED <<status, title, titleLog, userInputRequest, planningTask, answered,
                   asked, monitored, snapshot, executed, restVars>>

\* _maybe_set_conversation_title: get_conversation and the test of its title.
ReadTitle(s) ==
    /\ pos[s] = "title"
    /\ snapshot' = [snapshot EXCEPT ![s] = title]
    /\ pos' = Goto(s, IF title # 0 THEN "execute" ELSE "write_title")
    /\ UNCHANGED <<status, title, titleLog, executionContexts, userInputRequest,
                   planningTask, answered, asked, monitored, out, executed, restVars>>

\* _maybe_set_conversation_title: manager.update_conversation persists the
\* conversation read before, now titled after the first task of the plan.
WriteTitle(s) ==
    /\ pos[s] = "write_title"
    /\ title' = monitored[s]
    /\ titleLog' = Append(titleLog, monitored[s])
    /\ pos' = Goto(s, "execute")
    /\ UNCHANGED <<status, executionContexts, userInputRequest, planningTask, answered,
                   asked, monitored, snapshot, out, executed, restVars>>

\* task_executor.execute_plan(plan, thread_id), as one step.
ExecuteSessionPlan(s) ==
    /\ pos[s] = "execute"
    /\ executed' = [executed EXCEPT ![s] = monitored[s]]
    /\ out' = Log(s, <<"execute_plan">>)
    /\ pos' = Goto(s, "finally")
    /\ UNCHANGED <<status, title, titleLog, executionContexts, userInputRequest,
                   planningTask, answered, asked, monitored, snapshot, restVars>>

\* The finally clause of _generate_responses.
EndSession(s) ==
    /\ pos[s] = "finally"
    /\ out' = Log(s, <<"done">>)
    /\ pos' = Goto(s, "closed")
    /\ UNCHANGED <<status, title, titleLog, executionContexts, userInputRequest,
                   planningTask, answered, asked, monitored, snapshot, executed,
                   restVars>>

\* The planner calls user_input_callback (register_user_input) and blocks in
\* UserInputRequest.wait_for_response.
PlannerAsks(p) ==
    /\ planningTask[p] = "running"
    /\ asked[p] < MaxAsks
    /\ planningTask' = [planningTask EXCEPT ![p] = "waiting"]
    /\ userInputRequest' = p
    /\ asked' = [asked EXCEPT ![p] = @ + 1]
    /\ UNCHANGED <<status, title, titleLog, executionContexts, answered, pos,
                   monitored, snapshot, out, executed, restVars>>

\* The planner task returns its plan or raises.
PlannerFinishes(p) ==
    /\ planningTask[p] = "running"
    /\ \E r \in {"done", "raised"} : planningTask' = [planningTask EXCEPT ![p] = r]
    /\ UNCHANGED <<status, title, titleLog, executionContexts, userInputRequest,
                   answered, asked, pos, monitored, snapshot, out, executed, restVars>>

\* ExecutionContext.is_expired becomes true: the TTL has passed.
ContextExpires ==
    /\ executionContexts.present
    /\ ~executionContexts.expired
    /\ executionContexts' = [executionContexts EXCEPT !.expired = TRUE]
    /\ UNCHANGED <<status, title, titleLog, userInputRequest, planningTask, answered,
                   asked, pos, monitored, snapshot, out, executed, restVars>>

\* No session has started on the conversation, which is ACTIVE and untitled.
ConvIdle ==
    /\ status = "ACTIVE"
    /\ title = 0
    /\ titleLog = <<>>
    /\ executionContexts = NoContext
    /\ userInputRequest = 0
    /\ planningTask = [p \in Sessions |-> "none"]
    /\ answered = [s \in Sessions |-> 0]
    /\ asked = [p \in Sessions |-> 0]
    /\ pos = [s \in Sessions |-> "idle"]
    /\ monitored = [s \in Sessions |-> 0]
    /\ snapshot = [s \in Sessions |-> 0]
    /\ out = [s \in Sessions |-> <<>>]
    /\ executed = [s \in Sessions |-> 0]

\* ----------------------------------------------- ExecutionPlanner.create_plan
MaxAgents == 3       \* longest recommended_agents list
MaxBriefs == 2       \* most tasks of one PlannerResponse

\* Agent names the Super Agent recommends (its prompt names all four).
AgentNames == {"ResearchAgent", "NewsAgent", "StrategyAgent", "HKStockAgent"}

\* Agent names a PlannerResponse may carry: a registered one and an invented one.
\* schedule_config of a brief: None, interval_minutes, or both fields at once.
\* A _TaskBrief; the brief at position i of a response has task_id i, and
\* depends_on may name MaxBriefs + 1, which no brief of the response has.
Briefs(i) ==
    [task_id : {i}, agent_name : {"ResearchAgent", "GhostAgent"}, pattern : {"ONCE", "RECURRING"},
     schedule_config : {"none", "interval", "both"}, depends_on : SUBSET (1..(MaxBriefs + 1))]

BriefLists ==
    UNION { { q \in [1..n -> UNION { Briefs(i) : i \in 1..n }] :
                \A i \in 1..n : q[i].task_id = i } : n \in 0..MaxBriefs }

NoResponse == [type |-> "none", json |-> FALSE, adequate |-> FALSE,
               guidance_message |-> "", tasks |-> <<>>]

\* run_response.content: a PlannerResponse, a str that json.loads and
\* PlannerResponse(**plan_dict) accept or not, or a value of another type.
RunResponses ==
    [type : {"PlannerResponse"}, json : {TRUE}, adequate : BOOLEAN,
     guidance_message : {"", "confirm"}, tasks : BriefLists]
    \cup [type : {"str"}, json : {TRUE}, adequate : BOOLEAN,
          guidance_message : {"", "confirm"}, tasks : BriefLists]
    \cup { [type |-> "str", json |-> FALSE, adequate |-> FALSE,
            guidance_message |-> "", tasks |-> <<>>],
           [type |-> "other", json |-> FALSE, adequate |-> FALSE,
            guidance_message |-> "", tasks |-> <<>>] }

\* _create_task: the fields of the brief are copied as they are.
CreateTask(b) ==
    [task_id |-> b.task_id, agent_name |-> b.agent_name, pattern |-> b.pattern,
     schedule_config |-> b.schedule_config, depends_on |-> b.depends_on]

IndependentAgents(rec) == SelectSeq(rec, LAMBDA a : a \in {"ResearchAgent", "NewsAgent"})
DependentAgents(rec) == SelectSeq(rec, LAMBDA a : a = "StrategyAgent")

\* Mutant: the synthesis tasks wait for the first independent task only.
DependencyTaskIdsFirstOnly(ts) == IF Len(ts) > 0 THEN {ts[1].task_id} ELSE {}

\* dependency_task_ids = [t.task_id for t in tasks]
DependencyTaskIds(ts) == {ts[i].task_id : i \in 1..Len(ts)}

\* _create_tasks_from_recommendations; generate_uuid("task") gives each task
\* a fresh id, here its position in the list.
CreateTasksFromRecommendations(rec) ==
    LET ind == IndependentAgents(rec)
        dep == DependentAgents(rec)
        first == [i \in 1..Len(ind) |->
                     CreateTask([task_id |-> i, agent_name |-> ind[i], pattern |-> "ONCE",
                                 schedule_config |-> "none", depends_on |-> {}])]
        ids == IF Len(first) > 0 THEN DependencyTaskIds(first) ELSE {}
        second == [j \in 1..Len(dep) |->
                     CreateTask([task_id |-> Len(ind) + j, agent_name |-> dep[j],
                                 pattern |-> "ONCE", schedule_config |-> "none",
                                 depends_on |-> ids])]
    IN first \o second

ShouldSuggestMultiAgentFallback(tgt, inv, ts) == tgt = "" /\ Len(ts) = 1 /\ inv

\* _create_multi_agent_fallback_plan: fallback_task_1, fallback_task_2 and
\* fallback_task_3 are ids 1, 2 and 3.
CreateMultiAgentFallbackPlan(original_task) ==
    << [task_id |-> 1, agent_name |-> "ResearchAgent", pattern |-> original_task.pattern,
        schedule_config |-> "none", depends_on |-> {}],
       [task_id |-> 2, agent_name |-> "NewsAgent", pattern |-> original_task.pattern,
        schedule_config |-> "none", depends_on |-> {}],
       [task_id |-> 3, agent_name |-> "StrategyAgent", pattern |-> original_task.pattern,
        schedule_config |-> "none", depends_on |-> {1, 2}] >>

\* plan_raw.guidance_message or plan_raw.reason
GuidanceOr(g) == IF g # "" THEN g ELSE "reason"

\* The part of _analyze_input_and_create_tasks after the planning agent has
\* answered with resp.
ParsePlannerResponse(tgt, inv, resp) ==
    IF resp.type = "other"
    THEN [tasks |-> <<>>, guidance_message |-> "unexpected response type"]
    ELSE IF resp.type = "str" /\ ~resp.json
    THEN [tasks |-> <<>>, guidance_message |-> "malformed response"]
    ELSE IF ~resp.adequate \/ resp.tasks = <<>>
    THEN [tasks |-> <<>>, guidance_message |-> GuidanceOr(resp.guidance_message)]
    ELSE LET ts == [i \in 1..Len(resp.tasks) |-> CreateTask(resp.tasks[i])]
         IN [tasks |-> IF ShouldSuggestMultiAgentFallback(tgt, inv, ts)
                       THEN CreateMultiAgentFallbackPlan(ts[1])
                       ELSE ts,
             guidance_message |-> ""]

\* create_plan: with two or more recommended agents the tasks come from the
\* recommendations and the planning agent is not run; otherwise the agent
\* runs (its pauses for user input are the sessions' business) and its
\* answer is parsed.
CreatePlanWith(responses) ==
    /\ ppc = "planning"
    /\ ppc' = "planned"
    /\ \/ /\ Len(recommended_agents) > 1
          /\ planTasks' = CreateTasksFromRecommendations(recommended_agents)
          /\ planGuidance' = ""
          /\ UNCHANGED <<run_response, agentRuns>>
       \/ /\ Len(recommended_agents) <= 1
          /\ \E resp \in responses :
               /\ run_response' = resp
               /\ planTasks' = ParsePlannerResponse(target, investment, resp).tasks
               /\ planGuidance' = ParsePlannerResponse(target, investment, resp).guidance_message
          /\ agentRuns' = agentRuns + 1
    /\ UNCHANGED <<recommended_agents, investment>>
    /\ UNCHANGED <<pipelineVars, consumerVars, cancelledAt, apiVars, convVars, unitVars>>

\* create_plan, the planning agent answering with any response of RunResponses.
CreatePlan == CreatePlanWith(RunResponses)

\* create_plan has not been called.
PlanIdle ==
    /\ ppc = "idle"
    /\ recommended_agents = <<>>
    /\ investment = FALSE
    /\ run_response = NoResponse
    /\ planTasks = <<>>
    /\ planGuidance = ""
    /\ agentRuns = 0

\* ------------------------------------------- _build_execution_batches alone
IdsIn(tasks) == {tasks[i].task_id : i \in 1..Len(tasks)}

\* tasks_by_id = {task.task_id: task for task in tasks}: of several tasks with
\* one id the dict keeps the last.
TasksById(tasks) ==
    [id \in IdsIn(tasks) |->
        CHOOSE i \in 1..Len(tasks) :
            /\ tasks[i].task_id = id
            /\ \A j \in 1..Len(tasks) : tasks[j].task_id = id => j <= i]

\* _build_execution_batches on a task list: the batches of ids, each id
\* replaced by the task the dict holds for it.
BuildExecutionBatchesOfList(tasks) ==
    LET byId == TasksById(tasks)
        deps == [id \in IdsIn(tasks) |-> tasks[byId[id]].depends_on]
        idBatches == Peel(deps, IdsIn(tasks), {})
    IN [b \in 1..Len(idBatches) |-> {byId[id] : id \in idBatches[b]}]

BuildBatches ==
    /\ bpc = "called"
    /\ batchesOut' = BuildExecutionBatchesOfList(tasksIn)
    /\ bpc' = "returned"
    /\ UNCHANGED tasksIn
    /\ UNCHANGED <<pipelineVars, consumerVars, cancelledAt, apiVars, convVars, planVars>>
    /\ UNCHANGED <<accVars, ttlVars, queueVars, idsVars>>


\* ------------------------------------ ScheduledTaskResultAccumulator alone
MaxResponses == 3    \* longest list of responses handed to consume

AccumulatorConsume ==
    /\ apc = "created"
    /\ consumedOut' = Consume(1, responsesIn)
    /\ apc' = "consumed"
    /\ UNCHANGED <<responsesIn, finalOut>>
    /\ UNCHANGED <<pipelineVars, consumerVars, cancelledAt, apiVars, convVars, planVars>>
    /\ UNCHANGED <<batchFnVars, ttlVars, queueVars, idsVars>>

AccumulatorFinalize ==
    /\ apc = "consumed"
    /\ finalOut' = Finalize(1)
    /\ apc' = "finalized"
    /\ UNCHANGED <<responsesIn, consumedOut>>
    /\ UNCHANGED <<pipelineVars, consumerVars, cancelledAt, apiVars, convVars, planVars>>
    /\ UNCHANGED <<batchFnVars, ttlVars, queueVars, idsVars>>


\* ------------------------------------------------ ExecutionContext expiry
DEFAULT_CONTEXT_TIMEOUT_SECONDS == 3600

MaxStart == 1      \* latest clock reading at which the context is created
MaxOverrun == 2    \* seconds the clock runs on past the TTL

NoVerdict == [returned |-> FALSE, same_user |-> FALSE, valid |-> FALSE]

\* Mutant: a context never expires.
IsExpiredNever(current_time, created, max_age_seconds) == FALSE

\* ExecutionContext.is_expired
IsExpired(current_time, created, max_age_seconds) ==
    current_time - created > max_age_seconds

\* _validate_execution_context, with the clock read by is_expired
ValidateAt(has_stage, same_user, current_time, created) ==
    IF ~has_stage THEN FALSE
    ELSE IF ~same_user THEN FALSE
    ELSE IF IsExpired(current_time, created, DEFAULT_CONTEXT_TIMEOUT_SECONDS) THEN FALSE
    ELSE TRUE

TimePasses ==
    /\ ~verdict.returned
    /\ \E d \in {1, DEFAULT_CONTEXT_TIMEOUT_SECONDS \div 2} :
         /\ clock + d - created_at <= DEFAULT_CONTEXT_TIMEOUT_SECONDS + MaxOverrun
         /\ clock' = clock + d
    /\ UNCHANGED <<created_at, verdict>>
    /\ UNCHANGED <<pipelineVars, consumerVars, cancelledAt, apiVars, convVars, planVars>>
    /\ UNCHANGED <<batchFnVars, accVars, queueVars, idsVars>>

\* A resume reaches _validate_execution_context; the context was stored with
\* stage "planning", the user is the one who created it or another.
ValidateContext ==
    /\ ~verdict.returned
    /\ \E same_user \in BOOLEAN :
         verdict' = [returned |-> TRUE, same_user |-> same_user,
                     valid |-> ValidateAt(TRUE, same_user, clock, created_at)]
    /\ UNCHANGED <<clock, created_at>>
    /\ UNCHANGED <<pipelineVars, consumerVars, cancelledAt, apiVars, convVars, planVars>>
    /\ UNCHANGED <<batchFnVars, accVars, queueVars, idsVars>>


\* ------------------------------------- process_user_input and _run_session
MaxEvents == 4     \* most responses one pipeline yields

\* The None that _run_session emits last.
EndOfStream == 0

\* Mutant: the queue holds one item and emit drops what does not fit.
EmitDropsWhenFull(item) ==
    IF ~qactive \/ Len(queue) >= 1
    THEN /\ dropped' = dropped \cup {item}
         /\ UNCHANGED queue
    ELSE /\ queue' = Append(queue, item)
         /\ UNCHANGED dropped

\* emit: nothing is enqueued once the consumer has gone away; the queue has
\* no maxsize, so put never waits and never fails.
Emit(item) ==
    IF ~qactive
    THEN /\ dropped' = dropped \cup {item}
         /\ UNCHANGED queue
    ELSE /\ queue' = Append(queue, item)
         /\ UNCHANGED dropped

\* One turn of `async for response in self._generate_responses(...)`.
ProduceResponse ==
    /\ qpc = "running"
    /\ Len(produced) < MaxEvents
    /\ produced' = Append(produced, Len(produced) + 1)
    /\ Emit(Len(produced) + 1)
    /\ UNCHANGED <<qpc, ended_by, qactive, cpc, received>>
    /\ UNCHANGED <<pipelineVars, consumerVars, cancelledAt, apiVars, convVars, planVars>>
    /\ UNCHANGED <<batchFnVars, accVars, ttlVars, idsVars>>

\* Mutant: the producer ends without emitting None.
RunSessionEndsSilently ==
    /\ qpc = "running"
    /\ \E how \in {"return", "exception"} : ended_by' = how
    /\ qpc' = "finished"
    /\ UNCHANGED <<produced, queue, qactive, cpc, received, dropped>>
    /\ UNCHANGED <<pipelineVars, consumerVars, cancelledAt, apiVars, convVars, planVars>>
    /\ UNCHANGED <<batchFnVars, accVars, ttlVars, idsVars>>

\* The pipeline's generator is exhausted or raises; the finally clause of
\* _run_session emits None.
RunSessionEnds ==
    /\ qpc = "running"
    /\ \E how \in {"return", "exception"} : ended_by' = how
    /\ qpc' = "finished"
    /\ Emit(EndOfStream)
    /\ UNCHANGED <<produced, qactive, cpc, received>>
    /\ UNCHANGED <<pipelineVars, consumerVars, cancelledAt, apiVars, convVars, planVars>>
    /\ UNCHANGED <<batchFnVars, accVars, ttlVars, idsVars>>

\* `item = await queue.get()` returns: None ends the generator, whose finally
\* clause clears the flag; anything else is yielded.
QueueGet ==
    /\ cpc = "get"
    /\ queue # <<>>
    /\ queue' = Tail(queue)
    /\ IF Head(queue) = EndOfStream
       THEN /\ cpc' = "ended"
            /\ qactive' = FALSE
            /\ UNCHANGED received
       ELSE /\ cpc' = "yield"
            /\ received' = Append(received, Head(queue))
            /\ UNCHANGED qactive
    /\ UNCHANGED <<qpc, ended_by, produced, dropped>>
    /\ UNCHANGED <<pipelineVars, consumerVars, cancelledAt, apiVars, convVars, planVars>>
    /\ UNCHANGED <<batchFnVars, accVars, ttlVars, idsVars>>

\* The caller asks for the next item.
CallerIterates ==
    /\ cpc = "yield"
    /\ cpc' = "get"
    /\ UNCHANGED <<qpc, ended_by, produced, queue, qactive, received, dropped>>
    /\ UNCHANGED <<pipelineVars, consumerVars, cancelledAt, apiVars, convVars, planVars>>
    /\ UNCHANGED <<batchFnVars, accVars, ttlVars, idsVars>>

\* The caller goes away: CancelledError in queue.get, or the generator is
\* closed at its yield; either way the flag is cleared and the producer is
\* left running.
CallerGoesAway ==
    /\ cpc \in {"get", "yield"}
    /\ cpc' = "gone"
    /\ qactive' = FALSE
    /\ UNCHANGED <<qpc, ended_by, produced, queue, received, dropped>>
    /\ UNCHANGED <<pipelineVars, consumerVars, cancelledAt, apiVars, convVars, planVars>>
    /\ UNCHANGED <<batchFnVars, accVars, ttlVars, idsVars>>


\* --------------------------------------------- task ids of several plans
MaxPlans == 2      \* create_plan calls in a row

\* The task_id strings of the plan just created. generate_uuid("task") gives
\* a string no other call gives; a brief's id is the string the planning
\* agent wrote ("task_1", "task_2", as its prompt asks); the fallback plan
\* has the literals fallback_task_1, fallback_task_2 and fallback_task_3.
PlanTaskIds ==
    LET IsFallbackPlan ==
            /\ Len(recommended_agents) <= 1
            /\ planGuidance = ""
            /\ planTasks # <<>>
            /\ ShouldSuggestMultiAgentFallback(
                   target, investment,
                   [i \in 1..Len(run_response.tasks) |-> CreateTask(run_response.tasks[i])])
        origin == IF Len(recommended_agents) > 1 THEN <<"uuid", calls + 1>>
                  ELSE IF IsFallbackPlan THEN <<"fallback_task", 0>>
                  ELSE <<"task", 0>>
    IN {<<origin[1], origin[2], planTasks[i].task_id>> : i \in 1..Len(planTasks)}

\* Responses that differ in what decides the task ids only: adequate or not,
\* and how many briefs, each named as the prompt asks (task_1, task_2).
IdResponses ==
    [type : {"PlannerResponse"}, json : {TRUE}, adequate : BOOLEAN,
     guidance_message : {""},
     tasks : { [i \in 1..n |-> [task_id |-> i, agent_name |-> "ResearchAgent",
                                pattern |-> "ONCE", schedule_config |-> "none",
                                depends_on |-> {}]] : n \in 0..MaxBriefs }]


\* The plan is handed to the executor, whose update_task calls make its task
\* ids known to the TaskService; the next user input reaches create_plan.
PlanHandedOn ==
    /\ ppc = "planned"
    /\ calls + 1 < MaxPlans
    /\ calls' = calls + 1
    /\ registered' = registered \cup PlanTaskIds
    /\ ppc' = "planning"
    /\ recommended_agents' \in UNION { [1..n -> AgentNames] : n \in 0..MaxAgents }
    /\ recommended_agents' # <<>> => target = ""
    /\ investment' \in BOOLEAN
    /\ run_response' = NoResponse
    /\ planTasks' = <<>>
    /\ planGuidance' = ""
    /\ agentRuns' = 0
    /\ UNCHANGED <<pipelineVars, consumerVars, cancelledAt, apiVars, convVars>>
    /\ UNCHANGED <<batchFnVars, accVars, ttlVars, queueVars>>


\* The functions checked on their own are idle, g excepted.
UnitIdle(g) ==
    /\ IF g = "batches" THEN TRUE
       ELSE bpc = "idle" /\ tasksIn = <<>> /\ batchesOut = <<>>
    /\ IF g = "accumulator" THEN TRUE
       ELSE apc = "idle" /\ responsesIn = <<>> /\ consumedOut = <<>> /\ finalOut = <<>>
    /\ IF g = "ttl" THEN TRUE
       ELSE clock = 0 /\ created_at = 0 /\ verdict = NoVerdict
    /\ IF g = "queue" THEN TRUE
       ELSE /\ qpc = "idle" /\ ended_by = "" /\ produced = <<>> /\ queue = <<>>
            /\ qactive = FALSE /\ cpc = "idle" /\ received = <<>> /\ dropped = {}
    /\ IF g = "ids" THEN TRUE
       ELSE calls = 0 /\ registered = {}

\* ------------------------------------------------------------ specification
Init ==
    /\ spc = "start"
    /\ target \in {"SuperAgent", "", "Other"}
    /\ \E c \in { <<"absent", "none", "none", FALSE>>,
                  <<"ACTIVE", "none", "none", FALSE>>,
                  <<"REQUIRE_USER_INPUT", "valid", "waiting", TRUE>>,
                  <<"REQUIRE_USER_INPUT", "invalid", "waiting", TRUE>>,
                  <<"REQUIRE_USER_INPUT", "none", "none", FALSE>> } :
         /\ conv = c[1]
         /\ ctx = c[2]
         /\ planner = c[3]
         /\ pending = c[4]
    /\ plan = NoPlan
    /\ stream = <<>>
    /\ store = <<>>
    /\ mode = "none"
    /\ batches = <<>>
    /\ bi = 0
    /\ active = {}
    /\ completed = {}
    /\ tpc = [t \in TaskIds |-> "pending"]
    /\ tstatus = [t \in TaskIds |-> "PENDING"]
    /\ runs = [t \in TaskIds |-> 0]
    /\ rs = [t \in TaskIds |-> RS0]
    /\ rem = [t \in TaskIds |-> 0]
    /\ buf = [t \in TaskIds |-> <<>>]
    /\ endEmitted = [t \in TaskIds |-> FALSE]
    /\ failure = [t \in TaskIds |-> "none"]
    /\ lateComplete = [t \in TaskIds |-> FALSE]
    \* the keywords are drawn for the requests without a target agent
    /\ complexQuery \in BOOLEAN
    /\ complexQuery => target = ""
    /\ super_outcome = NoOutcome
    /\ OutsideInit
    /\ ApiIdle
    /\ ConvIdle
    /\ PlanIdle
    /\ UnitIdle("")

\* The endpoint alone, on every task status and every store of up to MaxItems
\* controller items; no session is running.
InitCancel ==
    /\ spc = "closed"
    /\ target = ""
    /\ conv = "ACTIVE"
    /\ ctx = "none"
    /\ planner = "none"
    /\ pending = FALSE
    /\ plan = NoPlan
    /\ stream = <<>>
    /\ store = <<>>
    /\ mode = "none"
    /\ batches = <<>>
    /\ bi = 0
    /\ active = {}
    /\ completed = {}
    /\ tpc = [t \in TaskIds |-> "pending"]
    /\ tstatus = [t \in TaskIds |-> "PENDING"]
    /\ runs = [t \in TaskIds |-> 0]
    /\ rs = [t \in TaskIds |-> RS0]
    /\ rem = [t \in TaskIds |-> 0]
    /\ buf = [t \in TaskIds |-> <<>>]
    /\ endEmitted = [t \in TaskIds |-> FALSE]
    /\ failure = [t \in TaskIds |-> "none"]
    /\ lateComplete = [t \in TaskIds |-> FALSE]
    /\ complexQuery = FALSE
    /\ super_outcome = NoOutcome
    /\ OutsideInit
    /\ apiTask \in {"absent", "PENDING", "RUNNING", "COMPLETED", "FAILED", "CANCELLED"}
    /\ apiItems \in UNION { [1..n -> ControllerItems] : n \in 0..MaxItems }
    /\ apiLog = <<>>
    /\ ConvIdle
    /\ PlanIdle
    /\ UnitIdle("")


SpecCancel == InitCancel /\ [][CancelAndUpdateComponent]_vars

Next ==
    \/ GenerateResponses
    \/ HandleConversationContinuation
    \/ HandleNewRequest
    \/ SuperAgentRun
    \/ PlannerRequestsInput
    \/ PlannerReturns
    \/ MonitorPlanningTask
    \/ ContinuePlanning
    \/ ExecutePlan
    \/ ExecutePlanEnd
    \/ BatchDone
    \/ Finally
    \/ Disconnect
    \/ \E t \in TaskIds :
         \/ StartTask(t)
         \/ SendMessage(t)
         \/ TransportError(t)
         \/ RemoteSubmitted(t)
         \/ RemoteWorking(t)
         \/ RemoteTerminal(t)
         \/ RemoteEnds(t)
         \/ SleepTick(t)
         \/ CancelTask(t)

Spec == Init /\ [][Next]_vars

\* The executor alone, on every plan of up to NumTasks tasks: the state of a
\* session on an existing ACTIVE conversation when _monitor_planning_task
\* calls execute_plan.
InitExec ==
    /\ spc = "execute_plan"
    /\ target \in {"", "Other"}
    /\ conv = "ACTIVE"
    /\ ctx = "none"
    /\ planner = "done"
    /\ pending = FALSE
    /\ plan \in Plans(target # "Other", NumTasks, MaxRecurring)
    /\ stream = <<Ev("thread_started", 0, 0)>> \o PlanDisplay(plan)
    /\ store = stream
    /\ mode = "none"
    /\ batches = <<>>
    /\ bi = 0
    /\ active = {}
    /\ completed = {}
    /\ tpc = [t \in TaskIds |-> "pending"]
    /\ tstatus = [t \in TaskIds |-> "PENDING"]
    /\ runs = [t \in TaskIds |-> 0]
    /\ rs = [t \in TaskIds |-> RS0]
    /\ rem = [t \in TaskIds |-> 0]
    /\ buf = [t \in TaskIds |-> <<>>]
    /\ endEmitted = [t \in TaskIds |-> FALSE]
    /\ failure = [t \in TaskIds |-> "none"]
    /\ lateComplete = [t \in TaskIds |-> FALSE]
    /\ complexQuery = FALSE
    /\ super_outcome = NoOutcome
    /\ OutsideInit
    /\ ApiIdle
    /\ ConvIdle
    /\ PlanIdle
    /\ UnitIdle("")

NextExec ==
    \/ ExecutePlan
    \/ ExecutePlanEnd
    \/ BatchDone
    \/ Finally
    \/ \E t \in TaskIds :
         \/ StartTask(t)
         \/ SendMessage(t)
         \/ TransportError(t)
         \/ RemoteSubmitted(t)
         \/ RemoteWorking(t)
         \/ RemoteTerminal(t)
         \/ RemoteEnds(t)
         \/ SleepTick(t)
         \/ CancelTask(t)

SpecExec == InitExec /\ [][NextExec]_vars

\* NumSessions sessions on one existing conversation, interleaved at their
\* awaits; the pipeline below execute_plan is one step of each.
InitConv ==
    /\ spc = "closed"
    /\ target = ""
    /\ conv = "ACTIVE"
    /\ ctx = "none"
    /\ planner = "none"
    /\ pending = FALSE
    /\ plan = NoPlan
    /\ stream = <<>>
    /\ store = <<>>
    /\ mode = "none"
    /\ batches = <<>>
    /\ bi = 0
    /\ active = {}
    /\ completed = {}
    /\ tpc = [t \in TaskIds |-> "pending"]
    /\ tstatus = [t \in TaskIds |-> "PENDING"]
    /\ runs = [t \in TaskIds |-> 0]
    /\ rs = [t \in TaskIds |-> RS0]
    /\ rem = [t \in TaskIds |-> 0]
    /\ buf = [t \in TaskIds |-> <<>>]
    /\ endEmitted = [t \in TaskIds |-> FALSE]
    /\ failure = [t \in TaskIds |-> "none"]
    /\ lateComplete = [t \in TaskIds |-> FALSE]
    /\ complexQuery = FALSE
    /\ super_outcome = NoOutcome
    /\ OutsideInit
    /\ ApiIdle
    /\ ConvIdle
    /\ PlanIdle
    /\ UnitIdle("")

NextConv ==
    \/ ContextExpires
    \/ \E s \in Sessions :
         \/ StartSession(s)
         \/ RejectMissing(s)
         \/ RejectInvalid(s)
         \/ ActivateRejected(s)
         \/ StartPlanning(s)
         \/ MonitorPoll(s)
         \/ RequireUserInput(s)
         \/ ResumeThread(s)
         \/ ActivateResumed(s)
         \/ ContinuePoll(s)
         \/ ReadTitle(s)
         \/ WriteTitle(s)
         \/ ExecuteSessionPlan(s)
         \/ EndSession(s)
         \/ PlannerAsks(s)
         \/ PlannerFinishes(s)

SpecConv == InitConv /\ [][NextConv]_vars

\* One call of create_plan on every input the orchestrator can pass: the
\* Super Agent's recommendations come with an emptied target.
InitPlan ==
    /\ spc = "closed"
    /\ target \in {"", "Other"}
    /\ conv = "ACTIVE"
    /\ ctx = "none"
    /\ planner = "none"
    /\ pending = FALSE
    /\ plan = NoPlan
    /\ stream = <<>>
    /\ store = <<>>
    /\ mode = "none"
    /\ batches = <<>>
    /\ bi = 0
    /\ active = {}
    /\ completed = {}
    /\ tpc = [t \in TaskIds |-> "pending"]
    /\ tstatus = [t \in TaskIds |-> "PENDING"]
    /\ runs = [t \in TaskIds |-> 0]
    /\ rs = [t \in TaskIds |-> RS0]
    /\ rem = [t \in TaskIds |-> 0]
    /\ buf = [t \in TaskIds |-> <<>>]
    /\ endEmitted = [t \in TaskIds |-> FALSE]
    /\ failure = [t \in TaskIds |-> "none"]
    /\ lateComplete = [t \in TaskIds |-> FALSE]
    /\ complexQuery = FALSE
    /\ super_outcome = NoOutcome
    /\ OutsideInit
    /\ ApiIdle
    /\ ConvIdle
    /\ ppc = "planning"
    /\ recommended_agents \in UNION { [1..n -> AgentNames] : n \in 0..MaxAgents }
    /\ recommended_agents # <<>> => target = ""
    /\ investment \in BOOLEAN
    /\ run_response = NoResponse
    /\ planTasks = <<>>
    /\ planGuidance = ""
    /\ agentRuns = 0
    /\ UnitIdle("")


SpecPlan == InitPlan /\ [][CreatePlan]_vars

\* MaxPlans calls of create_plan, one after the other.
SpecIds == InitPlan /\ [][CreatePlanWith(IdResponses) \/ PlanHandedOn]_vars

\* No session is or was running: the state InitCancel starts from.
NoSession ==
    /\ spc = "closed"
    /\ target = ""
    /\ conv = "ACTIVE"
    /\ ctx = "none"
    /\ planner = "none"
    /\ pending = FALSE
    /\ stream = <<>>
    /\ store = <<>>
    /\ mode = "none"
    /\ batches = <<>>
    /\ bi = 0
    /\ active = {}
    /\ completed = {}
    /\ tpc = [t \in TaskIds |-> "pending"]
    /\ tstatus = [t \in TaskIds |-> "PENDING"]
    /\ runs = [t \in TaskIds |-> 0]
    /\ rs = [t \in TaskIds |-> RS0]
    /\ rem = [t \in TaskIds |-> 0]
    /\ buf = [t \in TaskIds |-> <<>>]
    /\ endEmitted = [t \in TaskIds |-> FALSE]
    /\ failure = [t \in TaskIds |-> "none"]
    /\ lateComplete = [t \in TaskIds |-> FALSE]
    /\ complexQuery = FALSE
    /\ super_outcome = NoOutcome
    /\ OutsideInit
    /\ ApiIdle
    /\ ConvIdle

\* One call of _build_execution_batches on every task list of TaskLists.
InitBatches ==
    /\ NoSession
    /\ plan = NoPlan
    /\ PlanIdle
    /\ UnitIdle("batches")
    /\ bpc = "called"
    \* lists of up to NumTasks tasks: an id may repeat, name no task, lie on a cycle
    /\ tasksIn \in UNION { [1..n -> [task_id : TaskIds, depends_on : SUBSET TaskIds]] :
                             n \in 0..NumTasks }
    /\ batchesOut = <<>>


SpecBatches == InitBatches /\ [][BuildBatches]_vars

\* One accumulator, created for task 1 of a one-task plan, ONCE or RECURRING,
\* and handed every list of ResponseLists.
InitAcc ==
    /\ NoSession
    /\ \E r \in {{}, {1}} :
         plan = [n |-> 1, deps |-> <<{}>>, rec |-> r, handoff |-> FALSE, guidance |-> ""]
    /\ PlanIdle
    /\ UnitIdle("accumulator")
    /\ apc = "created"
    \* a message, a reasoning event, a tool call, and two that are none of the three
    /\ responsesIn \in UNION { [1..n -> {Ev(k, 1, 0) : k \in
             {"message_chunk", "reasoning", "tool_call", "component_generator", "task_failed"}}] :
                                n \in 0..MaxResponses }
    /\ consumedOut = <<>>
    /\ finalOut = <<>>


SpecAcc == InitAcc /\ [][AccumulatorConsume \/ AccumulatorFinalize]_vars

\* An ExecutionContext just constructed: created_at is the clock's reading.
InitTtl ==
    /\ NoSession
    /\ plan = NoPlan
    /\ PlanIdle
    /\ UnitIdle("ttl")
    /\ clock \in 0..MaxStart
    /\ created_at = clock
    /\ verdict = NoVerdict


SpecTtl == InitTtl /\ [][TimePasses \/ ValidateContext]_vars

\* process_user_input has created the queue and the flag and started the
\* producer task; the generator waits in its first queue.get.
InitQueue ==
    /\ NoSession
    /\ plan = NoPlan
    /\ PlanIdle
    /\ UnitIdle("queue")
    /\ qpc = "running"
    /\ ended_by = ""
    /\ produced = <<>>
    /\ queue = <<>>
    /\ qactive = TRUE
    /\ cpc = "get"
    /\ received = <<>>
    /\ dropped = {}


SpecQueue ==
    InitQueue /\ [][ProduceResponse \/ RunSessionEnds \/ QueueGet
                     \/ CallerIterates \/ CallerGoesAway]_vars

\* The event loop resumes a queue.get that has an item to return, and a
\* caller that is still there asks for the next item; neither the pipeline
\* nor a caller's disconnect is bound to happen.
SpecQueueFair == SpecQueue /\ WF_vars(QueueGet) /\ WF_vars(CallerIterates)

\* ------------------------------------------------------------------ claims
Last(q) == q[Len(q)]
Terminals(q, t) == Count(q, "task_completed", t) + Count(q, "task_failed", t)

RECURSIVE Ancestors(_, _)
Ancestors(S, k) ==
    IF k = 0 THEN S
    ELSE Ancestors(S \cup UNION {plan.deps[x] : x \in S}, k - 1)

\* The batch of _build_execution_batches a task belongs to.
BatchOf(t) == CHOOSE i \in 1..Len(batches) : t \in batches[i]

\* C1: no task that depends, directly or through other tasks, on a failed
\* task is ever started: no remote call is made for it and no task_started
\* is emitted for it.
C1_DependentsNeverStart ==
    LET DependsOn(t) == Ancestors(plan.deps[t], plan.n)
    IN
    \A t \in PlanTasks : \A u \in DependsOn(t) :
        failure[u] # "none" => runs[t] = 0 /\ ~Occurs(store, "task_started", t)

\* C3: every task of an executed (acyclic) plan that is not cancelled has
\* exactly one terminal event in the client stream: never two, and one once
\* the session is over.
C3_OneTerminalPerTask ==
    \A t \in PlanTasks :
        (Acyclic(plan.deps, plan.n) /\ tstatus[t] # "CANCELLED") =>
            /\ Terminals(stream, t) <= 1
            /\ spc = "closed" => Terminals(stream, t) = 1

\* C5: every event the client has received is in the item store.
C5_PersistedBeforeYield ==
    \A i \in 1..Len(stream) : \E j \in 1..Len(store) : store[j] = stream[i]

\* C8: the events are persisted in the order in which they are forwarded:
\* what the client has received (the unpersisted final done aside) is a
\* prefix of the item store.
C8_PersistOrderIsClientOrder ==
    LET IsPrefix(a, b) == Len(a) <= Len(b) /\ SubSeq(b, 1, Len(a)) = a
    IN
    IsPrefix(SelectSeq(stream, LAMBDA e : e # Ev("done", 0, 0)), store)

\* C10: a task whose remote agent reported failed ends FAILED with a
\* task_failed event, and after fail_task neither complete_task is called
\* nor task_completed emitted for it.
C10_RemoteFailureIsFinal ==
    \A t \in PlanTasks :
        failure[t] = "remote" =>
            /\ ~lateComplete[t]
            /\ ~Occurs(store, "task_completed", t)
            /\ tpc[t] = "done" => tstatus[t] = "FAILED" /\ Occurs(store, "task_failed", t)

\* The tasks that run in the same batch as t.
Peers(t) == IF mode = "par" THEN batches[BatchOf(t)] ELSE PlanTasks

\* C2: an error raised while executing a task becomes a task_failed event
\* of that task; it never becomes a system_failed of the session, and every
\* task of the same batch still reaches its terminal state.
C2_TaskErrorIsolated ==
    /\ ~Occurs(stream, "system_failed", 0)
    /\ \A t \in PlanTasks :
         failure[t] = "error" =>
            /\ Occurs(store, "task_failed", t)
            /\ spc = "closed" =>
                 \A p \in Peers(t) : tpc[p] = "done" /\ Terminals(stream, p) >= 1

\* Witness of C2: a session is over in which a task of a parallel batch
\* raised and a peer of its batch was completed after that.
C2_Witness ==
    /\ spc = "closed"
    /\ mode = "par"
    /\ \E t \in PlanTasks : \E p \in Peers(t) \ {t} :
         /\ failure[t] = "error"
         /\ \E i, j \in 1..Len(store) :
              /\ i < j
              /\ store[i] = Ev("task_failed", t, 0)
              /\ store[j] = Ev("task_completed", p, 0)

\* C6: no task makes a remote call before every task of the earlier batches
\* is terminal, and in the client stream each task_completed of an earlier
\* batch comes before each task_started of a later batch.
C6_BatchOrder ==
    mode = "par" =>
        \A t, u \in PlanTasks :
            BatchOf(t) < BatchOf(u) =>
                /\ runs[u] > 0 => tpc[t] = "done"
                /\ \A i \in Positions(stream, "task_completed", t) :
                     \A j \in Positions(stream, "task_started", u) : i < j

\* Witness of C6: a task of a later batch has started after a batch of two
\* tasks was completed.
C6_Witness ==
    /\ mode = "par"
    /\ \E t, u \in PlanTasks :
         /\ BatchOf(t) < BatchOf(u)
         /\ Cardinality(batches[BatchOf(t)]) >= 2
         /\ Occurs(stream, "task_completed", t)
         /\ Occurs(stream, "task_started", u)

\* C7: the events of one task reach the client in the order in which they
\* arrived from the remote agent (which is the order they were persisted in).
C7_TaskOrderPreserved ==
    LET IsPrefix(a, b) == Len(a) <= Len(b) /\ SubSeq(b, 1, Len(a)) = a
        RemoteDerived(q, t) ==
            SelectSeq(q, LAMBDA e : TaskOf(e) = t /\ Kind(e) \in {"task_started", "message_chunk"})
        Arrival(t) ==
            <<Ev("task_started", t, 0)>> \o [i \in 1..MaxMsgs |-> Ev("message_chunk", t, i)]
    IN
    \A t \in PlanTasks :
        /\ IsPrefix(RemoteDerived(stream, t), RemoteDerived(store, t))
        /\ ~IsScheduled(t) => IsPrefix(RemoteDerived(stream, t), Arrival(t))

\* Witness of C7: the client has the events of a task whose remote events
\* arrived interleaved with those of a peer of its batch.
C7_Witness ==
    LET RemoteDerived(q, t) ==
            SelectSeq(q, LAMBDA e : TaskOf(e) = t /\ Kind(e) \in {"task_started", "message_chunk"})
        Arrival(t) ==
            <<Ev("task_started", t, 0)>> \o [i \in 1..MaxMsgs |-> Ev("message_chunk", t, i)]
    IN
    /\ mode = "par"
    /\ \E t \in PlanTasks :
         /\ ~IsScheduled(t)
         /\ RemoteDerived(stream, t) = Arrival(t)
         /\ \E i, j, k \in 1..Len(store) :
              /\ i < j /\ j < k
              /\ store[i] = Ev("task_started", t, 0)
              /\ TaskOf(store[j]) \in Peers(t) \ {t}
              /\ store[k] = Ev("message_chunk", t, 1)

C11_ProducerOutlivesConsumer ==
    ~consumerActive =>
        /\ Client = SubSeq(stream, 1, delivered)
        /\ spc = "closed" => (stream # <<>> /\ Last(stream) = Ev("done", 0, 0))
        /\ \A i \in (delivered + 1)..Len(stream) :
             stream[i] # Ev("done", 0, 0) => \E j \in 1..Len(store) : store[j] = stream[i]
        /\ \A t \in PlanTasks :
             /\ (spc = "executing" /\ tpc[t] = "sleeping") => ENABLED SleepTick(t)
             /\ (spc = "executing" /\ tpc[t] = "invoke"
                   /\ runs[t] < (IF IsScheduled(t) THEN MaxRuns ELSE 1))
                  => ENABLED SendMessage(t)

\* Witness of C11: the consumer left before the first invocation of a
\* RECURRING task was reported, and the task was invoked twice afterwards.
C11_Witness ==
    /\ ~consumerActive
    /\ \E t \in PlanTasks :
         /\ IsScheduled(t)
         /\ runs[t] = 2
         /\ Count(stream, "task_started", t) = 2
         /\ Count(Client, "task_started", t) = 0
         /\ Count(store, "task_started", t) = 2

\* C17: for a task cancelled through TaskService while the executor runs
\* it, and whose execution raises nothing, the executor calls no
\* complete_task and emits no task_completed (and no task_failed).
C17_CancelledTaskNoTerminal ==
    \A t \in PlanTasks :
        (tstatus[t] = "CANCELLED" /\ failure[t] = "none") =>
            /\ ~lateComplete[t]
            /\ Terminals(store, t) = 0

\* C18: after a RECURRING task was cancelled during the sleep between two
\* invocations or while an invocation was in flight, no send_message is made
\* for it any more; the invocation in flight can still run to its end.
C18_NoInvocationAfterCancel ==
    \A t \in PlanTasks :
        cancelledAt[t].at \in {"sleeping", "streaming"} =>
            /\ runs[t] = cancelledAt[t].runs
            /\ tpc[t] # "invoke"
            /\ (spc = "executing" /\ tpc[t] = "streaming" /\ rs[t].sub)
                  => ENABLED RemoteEnds(t)

\* Witness of C18: a task was cancelled while its first invocation was in
\* flight, the invocation delivered its result and the loop was left.
C18_Witness ==
    \E t \in PlanTasks :
        /\ cancelledAt[t].at = "streaming"
        /\ cancelledAt[t].runs = 1
        /\ tpc[t] = "done"
        /\ Occurs(store, "schedule_task_result", t)

\* C19: a task cancelled during the sleep between two invocations sleeps no
\* further poll interval: the remaining delay is never counted down again
\* and the next look at the task leaves the loop.
C19_SleepEndsWithinPoll ==
    \A t \in PlanTasks :
        cancelledAt[t].at = "sleeping" =>
            /\ tpc[t] \in {"sleeping", "done"}
            /\ rem[t] = (IF tpc[t] = "sleeping" THEN cancelledAt[t].rem ELSE 0)
            /\ (spc = "executing" /\ tpc[t] = "sleeping") => ENABLED SleepTick(t)

\* Witness of C19: a task was cancelled with the whole delay still to sleep
\* and has left the loop.
C19_Witness ==
    \E t \in PlanTasks :
        /\ cancelledAt[t].at = "sleeping"
        /\ cancelledAt[t].rem = DelayTicks
        /\ tpc[t] = "done"

\* C20: two successive calls of cancel_and_update_component leave the task
\* status and the persisted items of a single call, and the second call
\* gives the response of the first.
C20_CancelIdempotent ==
    Len(apiLog) >= 2 => apiLog[2] = apiLog[1]

\* ---- C12
\* C12: a session whose planner needs clarification stores the
\* ExecutionContext, then sets the conversation to REQUIRE_USER_INPUT, then
\* emits plan_require_user_input, and its stream ends there; the pause cancels
\* no planner, and a planner that asked stays blocked until its request is
\* given a response.
C12_PauseOrder ==
    LET Answers(p) == Cardinality({s \in Sessions : answered[s] = p})
    IN
    /\ \A s \in Sessions : \A i \in 1..Len(out[s]) :
         out[s][i] = "plan_require_user_input" =>
            /\ i >= 2 /\ out[s][i - 1] = "require_user_input"
            /\ Has(s, "start_planning_task") =>
                 (i >= 3 /\ out[s][i - 2] = "context_stored")
            /\ SubSeq(out[s], i + 1, Len(out[s])) \in {<<>>, <<"done">>}
    /\ \A p \in Sessions :
         /\ planningTask[p] = "cancelled" =>
              \E s \in Sessions : Has(s, "cancel_execution")
         /\ planningTask[p] = "waiting" => asked[p] = Answers(p) + 1
         /\ planningTask[p] \in {"running", "done", "raised"} => asked[p] = Answers(p)

C12_Witness ==
    \E s \in Sessions :
        /\ out[s] = <<"thread_started", "start_planning_task", "context_stored",
                      "require_user_input", "plan_require_user_input", "done">>
        /\ planningTask[s] = "waiting"
        /\ userInputRequest = s
        /\ status = "REQUIRE_USER_INPUT"
        /\ executionContexts = ContextOf(s, s)

\* ---- C13
\* C13: whenever the conversation is in REQUIRE_USER_INPUT the orchestrator
\* holds an ExecutionContext for it, under every interleaving of sessions.
C13_RequireInputHasContext ==
    status = "REQUIRE_USER_INPUT" => executionContexts.present

\* ---- C14
\* C14: a resume whose context is valid gives the user's text to the pending
\* UserInputRequest, sets the conversation back to ACTIVE, starts no planner
\* of its own but polls the planner task the context holds, and executes only
\* the plan that task returned.
C14_ValidResume ==
    /\ [][
               \A s \in Sessions :
                   /\ (pos[s] = "resume" /\ pos'[s] # "resume" /\ userInputRequest # 0) =>
                         /\ answered'[s] = userInputRequest
                         /\ planningTask[userInputRequest] = "waiting"
                         /\ planningTask'[userInputRequest] = "running"
                         /\ userInputRequest' = 0
                         /\ pos'[s] = "activate"
                   /\ (pos[s] = "resume" /\ pos'[s] # "resume") =>
                         \A p \in Sessions : planningTask[p] = "none" => planningTask'[p] = "none"
                   /\ (pos[s] = "activate" /\ pos'[s] # "activate") =>
                         (status' = "ACTIVE" /\ pos'[s] = "continue")
       ]_vars
    /\ [](\A s \in Sessions : (Has(s, "thread_started") /\ ~Has(s, "start_planning_task")) =>
            /\ planningTask[s] = "none"
            /\ monitored[s] # 0 /\ Has(monitored[s], "context_stored")
            /\ executed[s] # 0 =>
                 (executed[s] = monitored[s] /\ planningTask[monitored[s]] = "done"))

C14_Witness ==
    \E s \in Sessions :
        /\ out[s] = <<"thread_started", "provide_user_response", "activate",
                      "context_deleted", "execute_plan", "done">>
        /\ answered[s] = monitored[s]
        /\ executed[s] = monitored[s]
        /\ status = "ACTIVE"


\* ---- C15
\* C15: a resume whose ExecutionContext is missing, expired or owned by
\* another user emits system_failed and executes no plan, and when it has
\* handled the rejection no ExecutionContext remains for the conversation
\* and the planner task the conversation was paused on is no longer running
\* or blocked.
C15_RejectedResumeCleansUp ==
    [][
        LET PausedPlanner ==
                IF executionContexts.present THEN executionContexts.task ELSE userInputRequest
        IN
            \A s \in Sessions :
                (pos[s] \in {"missing", "invalid"} /\ pos'[s] # pos[s]) =>
                    /\ out'[s][1] = "system_failed"
                    /\ executed'[s] = 0
                    /\ pos'[s] \in {"finally", "reactivate"}
                    /\ ~executionContexts'.present
                    /\ PausedPlanner # 0 =>
                         planningTask'[PausedPlanner] \in {"cancelled", "done", "raised"}
    ]_vars

\* ---- C16
\* C16: the title of a conversation is written at most once, also when
\* several sessions of the conversation finish planning concurrently.
C16_TitleWrittenOnce == Len(titleLog) <= 1

\* ---- C21
\* C21: a cancel call leaves every persisted scheduled_task_controller item
\* that references the task id (by its task_id column or by the task_id
\* embedded in its content) with task_status cancelled and reports its item
\* id in updated_component_ids, whether or not the task is known in memory;
\* every other item is left as it was. Items are taken with the JSON payload
\* the event service writes.
C21_ComponentsCancelled ==
    [][
        LET References(it) == it.col \/ (it.json /\ it.content = "obj" /\ it.tid = "mine")
            WellFormed(it) == it.json /\ it.content # "bad"
        IN
            Len(apiLog') = Len(apiLog) + 1 =>
                /\ Len(apiItems') = Len(apiItems)
                /\ \A i \in 1..Len(apiItems) :
                     /\ (References(apiItems[i]) /\ WellFormed(apiItems[i])) =>
                           /\ apiItems'[i].st = "cancelled"
                           /\ apiItems'[i].col = apiItems[i].col
                           /\ apiItems'[i].tid = apiItems[i].tid
                           /\ i \in Last(apiLog').response.updated_component_ids
                     /\ ~References(apiItems[i]) =>
                           /\ apiItems'[i] = apiItems[i]
                           /\ i \notin Last(apiLog').response.updated_component_ids
    ]_vars

C21_Witness ==
    /\ Len(apiLog) = 1
    /\ apiTask = "absent"
    /\ Len(apiItems) = 2
    /\ apiLog[1].response.updated_component_ids = {1}
    /\ ~apiItems[1].col /\ apiItems[1].tid = "mine" /\ apiItems[1].st = "cancelled"
    /\ apiItems[2].tid = "other" /\ apiItems[2].st = "running"

\* ---- C22
\* C22: with two or more recommended agents the plan has exactly as many
\* tasks as agents were recommended, every recommended agent gets its task,
\* and if a synthesis-class agent (StrategyAgent) is among them exactly one
\* synthesis task exists and no task depends on it.
C22_OneTaskPerRecommendedAgent ==
    LET AgentCount(q, a) == Cardinality({i \in 1..Len(q) : q[i] = a})
        TaskAgents(ts) == [i \in 1..Len(ts) |-> ts[i].agent_name]
        Synthesis(t) == t.agent_name = "StrategyAgent"
        Terminal(ts, i) == \A j \in 1..Len(ts) : ts[i].task_id \notin ts[j].depends_on
    IN
    (ppc = "planned" /\ Len(recommended_agents) >= 2) =>
        /\ Len(planTasks) = Len(recommended_agents)
        /\ \A a \in AgentNames :
             AgentCount(TaskAgents(planTasks), a) = AgentCount(recommended_agents, a)
        /\ AgentCount(recommended_agents, "StrategyAgent") > 0 =>
             /\ AgentCount(TaskAgents(planTasks), "StrategyAgent") = 1
             /\ \A i \in 1..Len(planTasks) :
                  Synthesis(planTasks[i]) => Terminal(planTasks, i)

\* ---- C23
\* C23: with two or more recommended agents the planning agent is not run,
\* every task of a non-synthesis agent has an empty depends_on, and every
\* StrategyAgent task depends on exactly the ids of all non-synthesis tasks.
C23_RecommendedPlanShape ==
    LET Synthesis(t) == t.agent_name = "StrategyAgent"
        NonSynthesisIds(ts) == {ts[i].task_id : i \in {j \in 1..Len(ts) : ~Synthesis(ts[j])}}
    IN
    (ppc = "planned" /\ Len(recommended_agents) >= 2) =>
        /\ agentRuns = 0
        /\ \A i \in 1..Len(planTasks) :
             IF Synthesis(planTasks[i])
             THEN planTasks[i].depends_on = NonSynthesisIds(planTasks)
             ELSE planTasks[i].depends_on = {}

C23_Witness ==
    /\ ppc = "planned"
    /\ recommended_agents = <<"ResearchAgent", "StrategyAgent", "NewsAgent">>
    /\ agentRuns = 0
    /\ Len(planTasks) = 3
    /\ planTasks[1].agent_name = "ResearchAgent" /\ planTasks[1].depends_on = {}
    /\ planTasks[2].agent_name = "NewsAgent" /\ planTasks[2].depends_on = {}
    /\ planTasks[3].agent_name = "StrategyAgent" /\ planTasks[3].depends_on = {1, 2}

\* ---- C24
\* C24: in every plan create_plan returns, depends_on names only tasks of the
\* plan and has no cycle; and when the planning agent's response has a
\* dependency on an unknown task, a cycle, an agent name that is not
\* registered or an invalid schedule, the plan has no task and carries the
\* failure instead.
C24_PlansAreValidDags ==
    LET IdsOf(ts) == {ts[i].task_id : i \in 1..Len(ts)}
        DepsWithin(ts) == \A i \in 1..Len(ts) : ts[i].depends_on \subseteq IdsOf(ts)
        AcyclicTasks(ts) ==
            \A S \in SUBSET IdsOf(ts) :
                S = {} \/ \E i \in 1..Len(ts) : ts[i].task_id \in S /\ ts[i].depends_on \cap S = {}
        ValidSchedule(b) ==
            /\ b.schedule_config # "both"
            /\ b.pattern = "RECURRING" => b.schedule_config = "interval"
        ValidResponse(resp) ==
            /\ DepsWithin(resp.tasks)
            /\ AcyclicTasks(resp.tasks)
            /\ \A i \in 1..Len(resp.tasks) :
                 resp.tasks[i].agent_name \in AgentNames /\ ValidSchedule(resp.tasks[i])
    IN
    ppc = "planned" =>
        /\ DepsWithin(planTasks)
        /\ AcyclicTasks(planTasks)
        /\ (agentRuns = 1 /\ ~ValidResponse(run_response)) =>
               planTasks = <<>> /\ planGuidance # ""

\* ---- C25
\* C25: for every task of every plan create_plan returns, the fallback plan
\* included, schedule_config is set if and only if the pattern is RECURRING.
C25_ScheduleIffRecurring ==
    ppc = "planned" =>
        \A i \in 1..Len(planTasks) :
            (planTasks[i].schedule_config # "none") <=> (planTasks[i].pattern = "RECURRING")

\* ---- C26
\* C26: when the execution of a plan is over every task of the plan has been
\* started, also when depends_on contains a cycle: the tasks that never
\* become ready are executed in one final batch, none is skipped.
C26_EveryTaskStarted ==
    (spc = "closed" /\ plan.guidance = "") => \A t \in PlanTasks : (tpc[t] # "pending")

\* The sequence q ends with the sequence tail.
EndsWith(q, tail) == Len(q) >= Len(tail) /\ SubSeq(q, Len(q) - Len(tail) + 1, Len(q)) = tail

\* ---- C27
\* C27: when the planning agent's output cannot be parsed the plan has no
\* task and carries a guidance message; the session hands the message to the
\* client in a message_chunk of the Planner, directly followed by done, and
\* no task is started.
C27_MalformedPlanSurfaces ==
    LET NoTaskStarted ==
            /\ \A t \in TaskIds : tpc[t] = "pending" /\ tstatus[t] = "PENDING" /\ runs[t] = 0
            /\ \A i \in 1..Len(store) : TaskOf(store[i]) = 0
    IN
    (spc = "closed" /\ plan.guidance = "malformed response") =>
        /\ plan.n = 0
        /\ EndsWith(stream, <<Ev("message_chunk", 0, 0), Ev("done", 0, 0)>>)
        /\ ~Occurs(stream, "plan_failed", 0)
        /\ NoTaskStarted

\* C27 as the specification states it: the malformed output is surfaced as a
\* plan_failed event followed by done, and no task is started.
C27_MalformedPlanFails ==
    LET NoTaskStarted ==
            /\ \A t \in TaskIds : tpc[t] = "pending" /\ tstatus[t] = "PENDING" /\ runs[t] = 0
            /\ \A i \in 1..Len(store) : TaskOf(store[i]) = 0
    IN
    (spc = "closed" /\ plan.guidance = "malformed response") =>
        /\ plan.n = 0
        /\ EndsWith(stream, <<Ev("plan_failed", 0, 0), Ev("done", 0, 0)>>)
        /\ NoTaskStarted

C27_Witness ==
    /\ spc = "closed"
    /\ plan.guidance = "malformed response"
    /\ stream = <<Ev("conversation_started", 0, 0), Ev("thread_started", 0, 0),
                  Ev("message_chunk", 0, 0), Ev("done", 0, 0)>>

\* ---- C28
\* C28: when the planner answers adequate=false with a guidance message
\* asking to confirm a schedule, the stream ends with the message_chunk that
\* carries the guidance, followed by done; the conversation stays ACTIVE and
\* no execution context is kept, so the user's next input is a new request.
C28_GuidanceEndsSession ==
    (spc = "closed" /\ plan.guidance = "confirm") =>
        /\ EndsWith(stream, <<Ev("message_chunk", 0, 0), Ev("done", 0, 0)>>)
        /\ ~Occurs(stream, "plan_require_user_input", 0)
        /\ conv = "ACTIVE"
        /\ ctx = "none"
        /\ ~pending

\* C28 as the specification states it: the stream ends with
\* plan_require_user_input and done, and the conversation is left in
\* REQUIRE_USER_INPUT so that the next input resumes the planning.
C28_GuidancePausesConversation ==
    (spc = "closed" /\ plan.guidance = "confirm") =>
        /\ EndsWith(stream, <<Ev("plan_require_user_input", 0, 0), Ev("done", 0, 0)>>)
        /\ conv = "REQUIRE_USER_INPUT"

C28_Witness ==
    /\ spc = "closed"
    /\ plan.guidance = "confirm"
    /\ target = ""
    /\ super_outcome.decision = "handoff_to_planner"
    /\ conv = "ACTIVE"
    /\ Last(stream) = Ev("done", 0, 0)
    /\ stream[Len(stream) - 1] = Ev("message_chunk", 0, 0)

\* ---- C29
\* C29: a new request (no paused execution context) with an empty target
\* agent whose query does not match the fast-track rule goes to the Triager
\* before any planning; only a query that matches the rule bypasses it.
C29_TriageBeforePlanning ==
    [][
            (spc = "new_request" /\ spc' # "new_request" /\ target = "") =>
                IF complexQuery
                THEN spc' = "monitor" /\ planner' = "running"
                ELSE spc' = "triage" /\ planner' = planner
    ]_vars

C31_TaskStartedPerInvocation ==
    LET Accepted(t) ==
            runs[t] - (IF tpc[t] = "streaming" /\ ~rs[t].sub THEN 1 ELSE 0)
        ForwardedPositions(q, t) ==
            {i \in 1..Len(q) : /\ Kind(q[i]) \in {"message_chunk", "schedule_task_result"}
                               /\ TaskOf(q[i]) = t}
        TaskStartedCount(q, t) ==
            LET started == Positions(q, "task_started", t)
                n == Cardinality(started)
            IN /\ IF failure[t] = "error"
                  THEN n \in {runs[t] - 1, runs[t]} \cap Nat
                  ELSE n = Accepted(t)
               /\ ~IsScheduled(t) => n <= 1
               /\ \A i \in ForwardedPositions(q, t) : \E j \in started : j < i
    IN
    /\ \A t \in PlanTasks : TaskStartedCount(store, t)
    /\ spc = "closed" => \A t \in PlanTasks : TaskStartedCount(stream, t)

\* C31 as claimed: every task the executor runs has exactly one task_started
\* in the client stream.
C31_OneTaskStarted ==
    spc = "closed" =>
        \A t \in PlanTasks : (tpc[t] # "pending") => Count(stream, "task_started", t) = 1

C31_Witness ==
    /\ spc = "closed"
    /\ \E t \in PlanTasks :
         /\ IsScheduled(t)
         /\ runs[t] = 2
         /\ Count(stream, "task_started", t) = 2
         /\ Occurs(stream, "message_chunk", t) \/ Occurs(stream, "schedule_task_result", t)

\* ---- C32
\* C32: when an invocation of a RECURRING task ends, whether its remote
\* stream ended with a terminal status or without one, exactly one
\* schedule_task_result component is emitted for it.
C32_OneResultPerInvocation ==
    [][
        LET InvocationEnds(t) ==
                tpc[t] = "streaming" /\ tpc'[t] # "streaming" /\ failure'[t] # "error"
        IN
            \A t \in PlanTasks :
                IsScheduled(t) =>
                    Count(store', "schedule_task_result", t) =
                        Count(store, "schedule_task_result", t)
                        + (IF InvocationEnds(t) THEN 1 ELSE 0)
    ]_vars

\* ---- C36
\* C36: for every task handed off from the SuperAgent that the executor runs,
\* exactly one subagent_conversation component with phase start and exactly
\* one with phase end are emitted, the start first, whether the task
\* succeeds, fails or is RECURRING; for other tasks neither is emitted.
C36_SubagentStartAndEndOnce ==
    LET SubagentComponents(q, t) ==
            LET starts == Positions(q, "subagent_start", t)
                ends == Positions(q, "subagent_end", t)
            IN IF ~plan.handoff THEN starts = {} /\ ends = {}
               ELSE /\ Cardinality(starts) = (IF (tpc[t] # "pending") THEN 1 ELSE 0)
                    /\ Cardinality(ends) <= 1
                    /\ \A i \in ends : \E j \in starts : j < i
                    /\ tpc[t] = "done" => ends # {}
    IN
    /\ \A t \in PlanTasks : SubagentComponents(store, t)
    /\ spc = "closed" => \A t \in PlanTasks : SubagentComponents(stream, t)

C36_Witness ==
    /\ spc = "closed"
    /\ plan.handoff
    /\ \E t, u \in PlanTasks :
         /\ IsScheduled(t) /\ runs[t] = 2 /\ Count(stream, "subagent_end", t) = 1
         /\ failure[u] = "error" /\ Count(stream, "subagent_end", u) = 1

\* ---- C38
\* C38: the plan returned by one planner task is executed by at most one
\* session, also when several sessions resume the same paused conversation
\* concurrently.
C38_PlanExecutedOnce ==
    \A s1, s2 \in Sessions :
        (s1 # s2 /\ executed[s1] # 0) => executed[s1] # executed[s2]

\* ---- C37
\* C37: _build_execution_batches returns for every task list, and every task
\* of the list is in exactly one batch; when the dependencies are acyclic and
\* name tasks of the list only, each batch is the set of the tasks not yet
\* batched whose dependencies all lie in earlier batches.
C37_BatchesPartitionTasks ==
    LET BatchesHolding(i) == {b \in 1..Len(batchesOut) : i \in batchesOut[b]}
        Earlier(b) == UNION {batchesOut[c] : c \in 1..(b - 1)}
        DependencyPositions(i) ==
            {j \in 1..Len(tasksIn) : tasksIn[j].task_id \in tasksIn[i].depends_on}
        RECURSIVE Reaches(_, _, _)
        Reaches(id, goal, fuel) ==
            /\ fuel > 0
            /\ \E i \in 1..Len(tasksIn) :
                 /\ tasksIn[i].task_id = id
                 /\ \E d \in tasksIn[i].depends_on : d = goal \/ Reaches(d, goal, fuel - 1)
        ClosedDependencies == \A i \in 1..Len(tasksIn) : tasksIn[i].depends_on \subseteq IdsIn(tasksIn)
        AcyclicDependencies == \A id \in IdsIn(tasksIn) : ~Reaches(id, id, Len(tasksIn))
    IN
    bpc = "returned" =>
        /\ \A i \in 1..Len(tasksIn) : Cardinality(BatchesHolding(i)) = 1
        /\ (ClosedDependencies /\ AcyclicDependencies) =>
              \A b \in 1..Len(batchesOut) :
                  batchesOut[b] =
                      {i \in (1..Len(tasksIn)) \ Earlier(b) :
                          DependencyPositions(i) \subseteq Earlier(b)}

\* ---- C35
\* C35: for a ONCE task consume returns its input unchanged and finalize
\* returns nothing; for a RECURRING task consume returns, in their original
\* order, exactly the responses that are neither message, reasoning nor
\* tool-call events.
C35_ConsumePassesThrough ==
    LET PassedThrough ==
            {i \in 1..Len(responsesIn) :
                Kind(responsesIn[i]) \notin {"message_chunk", "reasoning", "tool_call"}}
    IN
    /\ apc \in {"consumed", "finalized"} =>
         IF IsScheduled(1)
         THEN LET order == SeqOfSet(PassedThrough)
              IN consumedOut = [j \in 1..Len(order) |-> responsesIn[order[j]]]
         ELSE consumedOut = responsesIn
    /\ (apc = "finalized" /\ ~IsScheduled(1)) => finalOut = <<>>

C35_Witness ==
    /\ apc = "finalized"
    /\ IsScheduled(1)
    /\ Len(responsesIn) = MaxResponses
    /\ Len(consumedOut) = 2
    /\ consumedOut[1] # consumedOut[2]
    /\ finalOut # <<>>

\* ---- C34
\* C34: a resume by the user who created the ExecutionContext is accepted at
\* every age of the context below DEFAULT_CONTEXT_TIMEOUT_SECONDS and
\* rejected at every age above it, the age being the time since the context
\* was created.
C34_TtlDecidesValidity ==
    verdict.returned =>
        /\ ((clock - created_at) < DEFAULT_CONTEXT_TIMEOUT_SECONDS /\ verdict.same_user) => verdict.valid
        /\ (clock - created_at) > DEFAULT_CONTEXT_TIMEOUT_SECONDS => ~verdict.valid

C34_Witness ==
    /\ verdict.returned
    /\ verdict.same_user
    /\ ~verdict.valid
    /\ (clock - created_at) = DEFAULT_CONTEXT_TIMEOUT_SECONDS + 1

\* ---- C33
\* C33: while the caller keeps iterating, every response the session produces
\* is delivered to it exactly once and in the order produced; a response is
\* dropped only after the caller has gone away, never because the queue is
\* full.
C33_DeliveredOnceInOrder ==
    /\ [](/\ received = SubSeq(produced, 1, Len(received))
          /\ cpc \in {"get", "yield"} => /\ produced = received \o SelectSeq(queue, LAMBDA x : x # EndOfStream)
                                         /\ dropped = {}
          /\ dropped # {} => cpc = "gone")
    /\ \A n \in 1..MaxEvents :
         (n \in DOMAIN produced /\ cpc \in {"get", "yield"})
             ~> (n \in DOMAIN received \/ cpc = "gone")

C33_Witness ==
    /\ cpc = "yield"
    /\ Len(received) = MaxEvents
    /\ received = produced

\* ---- C40
\* C40: when the producer finishes, by return or by an exception of the
\* pipeline, while the caller is still iterating, the end-of-stream item is
\* the last item of the queue, and the caller's iterator ends after every
\* response has been delivered.
C40_StreamEnds ==
    /\ []((qpc = "finished" /\ cpc \in {"get", "yield"}) =>
             /\ queue # <<>>
             /\ queue[Len(queue)] = EndOfStream
             /\ Len(SelectSeq(queue, LAMBDA x : x # EndOfStream)) = Len(queue) - 1)
    /\ [](cpc = "ended" => received = produced)
    /\ (qpc = "finished" /\ cpc \in {"get", "yield"}) ~> (cpc \in {"ended", "gone"})

C40_Witness ==
    /\ cpc = "ended"
    /\ ended_by = "exception"
    /\ Len(received) >= 2

\* ---- C39
\* C39: no task of a plan carries the task id of a task created for another
\* plan.
C39_TaskIdsUniqueAcrossPlans ==
    ppc = "planned" => PlanTaskIds \cap registered = {}

====
